---------------------------- MODULE Spec2Model ----------------------------
(***************************************************************************)
(* A model of MSL (bitwizeshift/MSL): the array construction primitives of *)
(* lifetime_utilities / uninitialized_storage, the cell / active_cell      *)
(* handles with cell_activator, the virtual_memory region with its         *)
(* platform backends, memory_block, the contract violation handlers,       *)
(* intrusive_pointer_stack and tagged_ptr.                                 *)
(*                                                                         *)
(* Several specifications share the module, one per component, among them: *)
(*   SpecLifetime  construct_array_at / destroy_array_at calls             *)
(*   SpecCells     cell, active_cell and cell_activator                    *)
(*   SpecVM        virtual_memory over a modelled operating system         *)
(*   SpecHandlers  the violation handlers of the contracts                 *)
(*   SpecStack     intrusive_pointer_stack                                 *)
(*   SpecTagged    tagged_ptr                                              *)
(* Each leaves the variables of the other components at their initial      *)
(* value.                                                                  *)
(***************************************************************************)
EXTENDS Integers, Sequences, FiniteSets, TLC

VARIABLES
  lu,         \* the last construct_array_at / destroy_array_at call and what it did
  cells,      \* the program's cell variables
  acts,       \* the program's active_cell variables
  liveCnt,    \* per storage location and element: constructions minus destructions
  trip,       \* per cell variable: the activate/deactivate trip that produced it
  cellOp,     \* the last cell_activator call and what it did
  crashed,    \* the process died (assertion failure or a fault)
  backend,    \* the virtual memory backend the build selected
  regions,    \* the program's virtual_memory variables
  osPages,    \* the operating system's state of every page of the address space
  vmOp,       \* the last virtual_memory call and what it did
  terminated, \* std::terminate was called
  query,      \* the last call of a query function and its result
  handlers,   \* the installed violation handler of each contract
  threads,    \* the threads that call the contracts, and what they saw
  stack       \* an intrusive_pointer_stack, the memory it links through, its last call

lifeVars == <<lu>>
cellVars == <<cells, acts, liveCnt, trip, cellOp, crashed>>
vmVars   == <<backend, regions, osPages, vmOp, terminated>>
miscVars == <<query, handlers, threads, stack>>
vars     == <<lu, cells, acts, liveCnt, trip, cellOp, crashed,
              backend, regions, osPages, vmOp, terminated, query, handlers,
              threads, stack>>

(***************************************************************************)
(* Bounds of the model.                                                    *)
(***************************************************************************)
\* The largest element count of an array (and the room of a storage location).
MaxN == 3

\* An index that is never reached: "no construction fails", "no fault".
Never == 0 - 1

(***************************************************************************)
(* Lifetime utilities.  The element type T is one whose constructor may    *)
(* throw and whose destructor is observable (not trivially destructible),  *)
(* so that every p->~T() the code issues is an event.  A call is described *)
(* by the events it produces, in order:                                    *)
(*   construct i   a T was constructed at index i                          *)
(*   fail i        the constructor at index i threw                        *)
(*   destroy i     the T at index i was destroyed                          *)
(* and by how it ends: "ok" (returns), "throw" (the exception reaches the  *)
(* caller), "abort" (MSL_ASSERT failed) or "crash" (the loop ran out of    *)
(* the storage: undefined behaviour that ends in a fault).                 *)
(***************************************************************************)
Ev(op, i) == [op |-> op, idx |-> i]

\* destroy_range(first, last): forward, [first, last).
RECURSIVE destroy_range(_, _)
destroy_range(first, last) ==
  IF first >= last THEN <<>>
  ELSE <<Ev("destroy", first)>> \o destroy_range(first + 1, last)

\* A rollback that walks the constructed elements forward, first to current.
destroy_range_forward(current, first) == destroy_range(first, current)

\* destroy_range(make_reverse_iterator(current), make_reverse_iterator(first)):
\* a reverse iterator made from p denotes p - 1, so this visits
\* current-1, current-2, ..., first.
RECURSIVE destroy_range_reverse(_, _)
destroy_range_reverse(current, first) ==
  IF current <= first THEN <<>>
  ELSE <<Ev("destroy", current - 1)>> \o destroy_range_reverse(current - 1, first)

\* The loop `for (; current != last; ++current) construct_at<T>(current, args...)`.
\* failAt is the index whose constructor throws, faultAt the index at which a
\* write outside the storage faults (only reached when current has passed last).
RECURSIVE construct_loop(_, _, _, _, _)
construct_loop(current, last, failAt, faultAt, log) ==
  IF current = last THEN [log |-> log, outcome |-> "ok", current |-> current]
  ELSE IF current = faultAt
    THEN [log |-> log, outcome |-> "crash", current |-> current]
  ELSE IF current = failAt
    THEN [log |-> Append(log, Ev("fail", current)), outcome |-> "throw",
          current |-> current]
  ELSE construct_loop(current + 1, last, failAt, faultAt,
                      Append(log, Ev("construct", current)))

\* construct_array_at_impl<T>(p, n, args...) of uninitialized_storage: the
\* first element is constructed outside the try block, the others inside it;
\* the handler destroys [first, current) in reverse and rethrows.
construct_array_at_impl(n, failAt, faultAt) ==
  IF faultAt = 0 THEN [log |-> <<>>, outcome |-> "crash"]
  ELSE IF failAt = 0 THEN [log |-> <<Ev("fail", 0)>>, outcome |-> "throw"]
  ELSE
    LET r == construct_loop(1, n, failAt, faultAt, <<Ev("construct", 0)>>)
    IN  IF r.outcome = "throw"
          THEN [log |-> r.log \o destroy_range_reverse(r.current, 0),
                outcome |-> "throw"]
          ELSE [log |-> r.log, outcome |-> r.outcome]

\* construct_array_at_impl<T>(p, n, args...) of lifetime_utilities: the same
\* algorithm behind MSL_ASSERT(n != 0u); with NDEBUG the assertion is not
\* checked.
lifetime_construct_array_at_impl(n, failAt, faultAt, ndebug) ==
  IF n = 0 /\ ~ndebug THEN [log |-> <<>>, outcome |-> "abort"]
  ELSE construct_array_at_impl(n, failAt, faultAt)

\* lifetime_utilities::construct_array_at<T>(p, n, copy): returns p at once
\* for n == 0.
lifetime_construct_array_at_copy(n, failAt, faultAt, ndebug) ==
  IF n = 0 THEN [log |-> <<>>, outcome |-> "ok"]
  ELSE lifetime_construct_array_at_impl(n, failAt, faultAt, ndebug)

\* destroy_array_at<T>(p, n): destroy_range(p, p + n).
destroy_array_at(n) == [log |-> destroy_range(0, n), outcome |-> "ok"]

\* The inputs of a call: n elements, the constructor at failAt throws (Never:
\* none does).  A write outside the n elements is undefined; faultAt is where
\* it faults, and is Never when the call stays inside them.
Counts == 0 .. MaxN
FailPoints == (0 .. MaxN) \cup {Never}
FaultPoints(n) == IF n = 0 THEN 0 .. MaxN ELSE {Never}

\* The failure points that make a difference to a call of n elements.
FailPointsOf(n) == (0 .. (IF n = 0 THEN MaxN ELSE n) - 1) \cup {Never}

LuCall(fn, n, failAt, r) ==
  lu' = [fn |-> fn, n |-> n, failAt |-> failAt, log |-> r.log,
         outcome |-> r.outcome]

\* uninitialized_storage::construct_array_at<T>(p, n)
UsConstructArrayAt ==
  /\ \E n \in Counts, failAt \in FailPoints : \E faultAt \in FaultPoints(n) :
       LuCall("us_default", n, failAt, construct_array_at_impl(n, failAt, faultAt))
  /\ UNCHANGED <<cellVars, vmVars, miscVars>>

\* uninitialized_storage::construct_array_at<T>(p, n, copy)
UsConstructArrayAtCopy ==
  /\ \E n \in Counts, failAt \in FailPoints : \E faultAt \in FaultPoints(n) :
       LuCall("us_copy", n, failAt, construct_array_at_impl(n, failAt, faultAt))
  /\ UNCHANGED <<cellVars, vmVars, miscVars>>

\* lifetime_utilities::construct_array_at<T>(p, n)
LuConstructArrayAt ==
  /\ \E n \in Counts, failAt \in FailPoints, ndebug \in BOOLEAN :
       \E faultAt \in FaultPoints(n) :
         LuCall("lu_default", n, failAt,
                lifetime_construct_array_at_impl(n, failAt, faultAt, ndebug))
  /\ UNCHANGED <<cellVars, vmVars, miscVars>>

\* lifetime_utilities::construct_array_at<T>(p, n, copy)
LuConstructArrayAtCopy ==
  /\ \E n \in Counts, failAt \in FailPoints, ndebug \in BOOLEAN :
       \E faultAt \in FaultPoints(n) :
         LuCall("lu_copy", n, failAt,
                lifetime_construct_array_at_copy(n, failAt, faultAt, ndebug))
  /\ UNCHANGED <<cellVars, vmVars, miscVars>>

\* destroy_array_at<T>(p, n)
DestroyArrayAt ==
  /\ \E n \in Counts : LuCall("destroy", n, Never, destroy_array_at(n))
  /\ UNCHANGED <<cellVars, vmVars, miscVars>>

(***************************************************************************)
(* Cells.  A storage location is a piece of raw storage with room for MaxN *)
(* elements; the program holds cell and active_cell variables that refer   *)
(* to locations.  A handle is a record of its shape ("scalar" for <T>,     *)
(* "dyn" for <T[]>, "fixed" for <T[N]>), its data pointer and its length   *)
(* (1 for a scalar, the run-time m_length for T[], N for T[N]).            *)
(***************************************************************************)
Locs == {"p"}
Null == "null"
CellVarNames == {"c1", "c2"}
ActVarNames == {"a1", "a2"}

\* The most unbalanced constructions of one element the model follows.
MaxLive == 2

Handle(shape, data, len) == [shape |-> shape, data |-> data, len |-> len]

\* A variable that is not in scope.
NoVar == Handle("none", Null, 0)

\* The cells an allocation source hands out over a location.
CellsOver(loc) ==
  {Handle("scalar", loc, 1)}
    \cup {Handle("dyn", loc, n) : n \in 0 .. MaxN}
    \cup {Handle("fixed", loc, n) : n \in 1 .. MaxN}

\* `c = cell<...>{}`: the cell no longer refers to any storage; a run-time
\* length is reset with it.
cleared(c) == Handle(c.shape, Null, IF c.shape = "dyn" THEN 0 ELSE c.len)

\* An active_cell built only after the cell was cleared.
active_cell_of_cleared(c) == Handle(c.shape, Null, IF c.shape = "dyn" THEN 0 ELSE c.len)

\* active_cell{p} / active_cell{p, c.length()}: built from the constructed
\* pointer and the cell's length, before the cell is cleared.
active_cell_of(c) == Handle(c.shape, c.data, c.len)

\* A cell that keeps the pointer and drops the run-time length.
cell_of_pointer_only(a) == Handle(a.shape, a.data, IF a.shape = "dyn" THEN 0 ELSE a.len)

\* cell{c.data()} / cell{c.data(), c.length()} of deactivate.
cell_of(a) == Handle(a.shape, a.data, a.len)

\* active_cell(active_cell&& other): the pointer (and length) are taken and
\* other.m_data = nullptr.
moved_from(a) == Handle(a.shape, Null, a.len)

\* The cell cleared before the construction is attempted.
cell_cleared_first(c, outcome) == cleared(c)

\* The cell variable after activate / activate_array: cleared only once the
\* construction has succeeded.
cell_after_activate(c, outcome) == IF outcome = "ok" THEN cleared(c) ELSE c

\* uninitialized_storage::construct_at<T>(p, args...): one placement new.
construct_at(failAt) ==
  IF failAt = 0 THEN [log |-> <<Ev("fail", 0)>>, outcome |-> "throw"]
  ELSE [log |-> <<Ev("construct", 0)>>, outcome |-> "ok"]

\* uninitialized_storage::destroy_at<T>(p)
destroy_at == [log |-> <<Ev("destroy", 0)>>, outcome |-> "ok"]

\* How many events of log are `op` at index i.
CountEv(log, op, i) ==
  Cardinality({j \in 1 .. Len(log) : log[j] = Ev(op, i)})

\* The effect of a call's events on the elements of a location.
ApplyLog(live, loc, log) ==
  [live EXCEPT ![loc] =
     [i \in 0 .. MaxN - 1 |->
        @[i] + CountEv(log, "construct", i) - CountEv(log, "destroy", i)]]

NoTrip == [orig |-> NoVar, log |-> <<>>]

Usable(h) == h.data # Null

\* No element of loc has reached the model's cap of live constructions.
BelowCap(loc) == \A i \in 0 .. MaxN - 1 : liveCnt[loc][i] < MaxLive

\* The body shared by the five activation overloads: the assertion on the
\* cell's pointer, the construction r, the active_cell built from the result,
\* the cell cleared last.
ActivateBody(op, cv, av, failAt, r) ==
  LET c == cells[cv]
  IN  /\ ~crashed
      /\ ~Usable(acts[av])
      /\ IF ~Usable(c)
           THEN /\ crashed' = TRUE
                /\ cellOp' = [op |-> op, arg |-> cv, dst |-> av, before |-> c,
                              liveBefore |-> liveCnt, failAt |-> failAt,
                              log |-> <<>>, outcome |-> "abort", result |-> NoVar]
                /\ UNCHANGED <<cells, acts, liveCnt, trip>>
           ELSE /\ BelowCap(c.data)
                /\ liveCnt' = ApplyLog(liveCnt, c.data, r.log)
                /\ cells' = [cells EXCEPT ![cv] = cell_after_activate(c, r.outcome)]
                /\ acts' = IF r.outcome = "ok"
                             THEN [acts EXCEPT ![av] = active_cell_of(c)]
                             ELSE acts
                /\ trip' = IF r.outcome = "ok"
                             THEN [trip EXCEPT ![av] = [orig |-> c, log |-> r.log],
                                               ![cv] = NoTrip]
                             ELSE trip
                /\ crashed' = (r.outcome \in {"crash", "abort"})
                /\ cellOp' = [op |-> op, arg |-> cv, dst |-> av, before |-> c,
                              liveBefore |-> liveCnt, failAt |-> failAt,
                              log |-> r.log, outcome |-> r.outcome,
                              result |-> IF r.outcome = "ok"
                                           THEN active_cell_of(c) ELSE NoVar]
      /\ UNCHANGED <<lifeVars, vmVars, miscVars>>

\* cell_activator::activate(cell<T, Align>&& c, Args&&... args)
Activate(cv, av) ==
  /\ cells[cv].shape = "scalar"
  /\ \E failAt \in {0, Never} :
       ActivateBody("activate", cv, av, failAt, construct_at(failAt))

\* cell_activator::activate_array(cell<T[], Align>&& c)
ActivateArrayDyn(cv, av) ==
  /\ cells[cv].shape = "dyn"
  /\ \E failAt \in FailPointsOf(cells[cv].len), faultAt \in FaultPoints(cells[cv].len) :
       ActivateBody("activate_array", cv, av, failAt,
                    construct_array_at_impl(cells[cv].len, failAt, faultAt))

\* cell_activator::activate_array(cell<T[N], Align>&& c)
ActivateArrayFixed(cv, av) ==
  /\ cells[cv].shape = "fixed"
  /\ \E failAt \in FailPointsOf(cells[cv].len), faultAt \in FaultPoints(cells[cv].len) :
       ActivateBody("activate_array", cv, av, failAt,
                    construct_array_at_impl(cells[cv].len, failAt, faultAt))

\* cell_activator::activate_array(cell<T[], Align>&& c, const T& copy)
ActivateArrayDynCopy(cv, av) ==
  /\ cells[cv].shape = "dyn"
  /\ \E failAt \in FailPointsOf(cells[cv].len), faultAt \in FaultPoints(cells[cv].len) :
       ActivateBody("activate_array_copy", cv, av, failAt,
                    construct_array_at_impl(cells[cv].len, failAt, faultAt))

\* cell_activator::activate_array(cell<T[N], Align>&& c, const T& copy)
ActivateArrayFixedCopy(cv, av) ==
  /\ cells[cv].shape = "fixed"
  /\ \E failAt \in FailPointsOf(cells[cv].len), faultAt \in FaultPoints(cells[cv].len) :
       ActivateBody("activate_array_copy", cv, av, failAt,
                    construct_array_at_impl(cells[cv].len, failAt, faultAt))

\* The body shared by the three deactivate overloads.  The active_cell is
\* taken by value: the caller's variable is moved from.  r is the destruction.
DeactivateBody(av, cv, r) ==
  LET a == acts[av]
  IN  /\ ~crashed
      /\ IF ~Usable(a)
           THEN /\ crashed' = TRUE
                /\ cellOp' = [op |-> "deactivate", arg |-> av, dst |-> cv,
                              before |-> a, liveBefore |-> liveCnt,
                              failAt |-> Never, log |-> <<>>,
                              outcome |-> "crash", result |-> NoVar]
                /\ UNCHANGED <<cells, acts, liveCnt, trip>>
           ELSE /\ liveCnt' = ApplyLog(liveCnt, a.data, r.log)
                /\ acts' = [acts EXCEPT ![av] = moved_from(a)]
                /\ cells' = [cells EXCEPT ![cv] = cell_of(a)]
                /\ trip' = [trip EXCEPT
                              ![cv] = [orig |-> trip[av].orig,
                                       log |-> trip[av].log \o r.log],
                              ![av] = NoTrip]
                /\ crashed' = FALSE
                /\ cellOp' = [op |-> "deactivate", arg |-> av, dst |-> cv,
                              before |-> a, liveBefore |-> liveCnt,
                              failAt |-> Never, log |-> r.log,
                              outcome |-> "ok", result |-> cell_of(a)]
      /\ UNCHANGED <<lifeVars, vmVars, miscVars>>

\* cell_activator::deactivate(active_cell<T, Align> c)
Deactivate(av, cv) ==
  /\ acts[av].shape = "scalar"
  /\ DeactivateBody(av, cv, destroy_at)

\* cell_activator::deactivate(active_cell<T[], Align> c)
DeactivateDyn(av, cv) ==
  /\ acts[av].shape = "dyn"
  /\ DeactivateBody(av, cv, destroy_array_at(acts[av].len))

\* cell_activator::deactivate(active_cell<T[N], Align> c)
DeactivateFixed(av, cv) ==
  /\ acts[av].shape = "fixed"
  /\ DeactivateBody(av, cv, destroy_array_at(acts[av].len))

\* cell(const cell& other) = default / operator=(const cell&) = default
CopyCell(src, dst) ==
  /\ ~crashed
  /\ src # dst
  /\ cells[src] # NoVar
  /\ cells' = [cells EXCEPT ![dst] = cells[src]]
  /\ trip' = [trip EXCEPT ![dst] = NoTrip]
  /\ cellOp' = [op |-> "copy", arg |-> src, dst |-> dst, before |-> cells[src],
                liveBefore |-> liveCnt, failAt |-> Never, log |-> <<>>,
                outcome |-> "ok", result |-> cells[src]]
  /\ UNCHANGED <<acts, liveCnt, crashed, lifeVars, vmVars, miscVars>>

\* active_cell(active_cell&& other) / operator=(active_cell&& other)
MoveActive(src, dst) ==
  /\ ~crashed
  /\ src # dst
  /\ acts[src] # NoVar
  /\ acts' = [acts EXCEPT ![dst] = acts[src], ![src] = moved_from(acts[src])]
  /\ trip' = [trip EXCEPT ![dst] = trip[src], ![src] = NoTrip]
  /\ cellOp' = [op |-> "move", arg |-> src, dst |-> dst, before |-> acts[src],
                liveBefore |-> liveCnt, failAt |-> Never, log |-> <<>>,
                outcome |-> "ok", result |-> acts[src]]
  /\ UNCHANGED <<cells, liveCnt, crashed, lifeVars, vmVars, miscVars>>

NoCellOp == [op |-> "none", arg |-> "none", dst |-> "none", before |-> NoVar,
             liveBefore |-> [l \in Locs |-> [i \in 0 .. MaxN - 1 |-> 0]],
             failAt |-> Never, log |-> <<>>, outcome |-> "ok", result |-> NoVar]

\* One cell over the location, of any shape and length, in c1; c2 is not yet
\* in scope; no active_cell yet; the storage holds no object.
CellInit ==
  /\ \E x \in CellsOver("p") :
       cells = [v \in CellVarNames |-> IF v = "c1" THEN x ELSE NoVar]
  /\ acts = [v \in ActVarNames |-> NoVar]
  /\ liveCnt = [l \in Locs |-> [i \in 0 .. MaxN - 1 |-> 0]]
  /\ trip = [v \in CellVarNames \cup ActVarNames |-> NoTrip]
  /\ cellOp = NoCellOp
  /\ crashed = FALSE

\* The cells when another component is being examined.
CellIdle ==
  /\ cells = [v \in CellVarNames |-> NoVar]
  /\ acts = [v \in ActVarNames |-> NoVar]
  /\ liveCnt = [l \in Locs |-> [i \in 0 .. MaxN - 1 |-> 0]]
  /\ trip = [v \in CellVarNames \cup ActVarNames |-> NoTrip]
  /\ cellOp = NoCellOp
  /\ crashed = FALSE

(***************************************************************************)
(* virtual_memory.  The operating system keeps, for every page of a small  *)
(* address space, whether it is free, reserved or committed and the first  *)
(* page of the reservation it belongs to.  Page 0 holds the null address   *)
(* and is never mapped.  Addresses are byte addresses.  Every system call  *)
(* may fail for lack of resources (osOk = FALSE).                          *)
(***************************************************************************)
Backends == {"posix", "win32", "default"}
RegionVarNames == {"r1", "r2"}

\* The page size the operating system reports, in bytes.
PageSize == 4
\* The mappable pages of the address space are 1 .. AddrPages.
AddrPages == 2
\* The largest page count reserved and the largest page index used.
MaxPages == 2

NullPtr == 0

\* A virtual_memory object: m_data and m_pages.  nulledBy records which
\* operation last set m_data to nullptr.
Region(data, pages) ==
  [alive |-> TRUE, data |-> data, pages |-> pages, nulledBy |-> "none"]

\* A virtual_memory variable that is not in scope.
NoRegion == [alive |-> FALSE, data |-> NullPtr, pages |-> 0, nulledBy |-> "none"]

FreePage == [st |-> "free", base |-> 0]
PageNo(addr) == addr \div PageSize
PageRange(addr, n) == PageNo(addr) .. PageNo(addr) + n - 1
AllMapped(os, addr, n) ==
  \A q \in PageRange(addr, n) : q \in 1 .. AddrPages /\ os[q].st # "free"
\* A protection change that runs on to the end of the address space.
SetStateToEnd(os, addr, n, st) ==
  [q \in 1 .. AddrPages |->
     IF q >= PageNo(addr) THEN [os[q] EXCEPT !.st = st] ELSE os[q]]

SetState(os, addr, n, st) ==
  [q \in 1 .. AddrPages |->
     IF q \in PageRange(addr, n) THEN [os[q] EXCEPT !.st = st] ELSE os[q]]
OsCall(fn, addr, n, ok) == [fn |-> fn, addr |-> addr, n |-> n, ok |-> ok]

\* The base pages at which the system can place a reservation of n pages.
Placements(os, n) ==
  {b \in 1 .. AddrPages :
     /\ n >= 1
     /\ b + n - 1 <= AddrPages
     /\ \A q \in b .. b + n - 1 : os[q].st = "free"}

\* default backend: every function throws not_implemented, a
\* std::runtime_error, and makes no system call.
default_virtual_memory_reserve(os, n) ==
  [throws |-> TRUE, error |-> "not_implemented", addr |-> NullPtr, os |-> os,
   calls |-> <<>>]
default_virtual_memory_commit(os, addr, n) ==
  [throws |-> TRUE, error |-> "not_implemented", os |-> os, calls |-> <<>>]

\* A stub that returns without doing anything.
default_decommit_silent(os, addr, n) ==
  [throws |-> FALSE, error |-> "none", os |-> os, calls |-> <<>>]

default_virtual_memory_decommit(os, addr, n) ==
  [throws |-> TRUE, error |-> "not_implemented", os |-> os, calls |-> <<>>]
default_virtual_memory_release(os, addr, n) ==
  [throws |-> TRUE, error |-> "not_implemented", os |-> os, calls |-> <<>>]

\* posix: p = mmap(nullptr, n * page_size, PROT_NONE, ...);
\* if (p == MAP_FAILED) throw.  The system places the reservation at base
\* page b, or refuses (b = 0: no bytes asked, no room, no resources).
posix_virtual_memory_reserve(os, n, b) ==
  LET success == b # 0
  IN  [throws |-> ~success,
       error |-> "system_error",
       addr |-> IF success THEN b * PageSize ELSE NullPtr,
       os |-> IF success
                THEN [q \in 1 .. AddrPages |->
                        IF q \in b .. b + n - 1
                          THEN [st |-> "reserved", base |-> b] ELSE os[q]]
                ELSE os,
       calls |-> <<OsCall("reserve", NullPtr, n, success)>>]

\* win32: p = VirtualAlloc(nullptr, n * page_size, MEM_RESERVE,
\* PAGE_NOACCESS); if (p == nullptr) throw
win32_virtual_memory_reserve(os, n, b) ==
  LET p == IF b # 0 THEN b * PageSize ELSE NullPtr
  IN  [throws |-> p = NullPtr,
       error |-> "system_error",
       addr |-> p,
       os |-> IF p # NullPtr
                THEN [q \in 1 .. AddrPages |->
                        IF q \in b .. b + n - 1
                          THEN [st |-> "reserved", base |-> b] ELSE os[q]]
                ELSE os,
       calls |-> <<OsCall("reserve", NullPtr, n, p # NullPtr)>>]

virtual_memory_reserve(be, os, n, b) ==
  IF be = "posix" THEN posix_virtual_memory_reserve(os, n, b)
  ELSE IF be = "win32" THEN win32_virtual_memory_reserve(os, n, b)
  ELSE default_virtual_memory_reserve(os, n)

\* posix: result = mprotect(memory, size, PROT_WRITE | PROT_READ);
\* if (result != 0) throw
posix_virtual_memory_commit(os, addr, n, osOk) ==
  LET result == IF osOk /\ AllMapped(os, addr, n) THEN 0 ELSE 0 - 1
  IN  [throws |-> result # 0,
       error |-> "system_error",
       os |-> IF result = 0 THEN SetState(os, addr, n, "committed") ELSE os,
       calls |-> <<OsCall("commit", addr, n, result = 0)>>]

\* win32: region = VirtualAlloc(memory, size, MEM_COMMIT, PAGE_READWRITE);
\* if (region == nullptr) throw
win32_virtual_memory_commit(os, addr, n, osOk) ==
  LET region == IF osOk /\ AllMapped(os, addr, n) THEN addr ELSE NullPtr
  IN  [throws |-> region = NullPtr,
       error |-> "system_error",
       os |-> IF region # NullPtr THEN SetState(os, addr, n, "committed") ELSE os,
       calls |-> <<OsCall("commit", addr, n, region # NullPtr)>>]

virtual_memory_commit(be, os, addr, n, osOk) ==
  IF be = "posix" THEN posix_virtual_memory_commit(os, addr, n, osOk)
  ELSE IF be = "win32" THEN win32_virtual_memory_commit(os, addr, n, osOk)
  ELSE default_virtual_memory_commit(os, addr, n)

\* posix: result = mprotect(memory, size, PROT_NONE);
\* if (result == 0) throw
posix_virtual_memory_decommit(os, addr, n, osOk) ==
  LET result == IF osOk /\ AllMapped(os, addr, n) THEN 0 ELSE 0 - 1
  IN  [throws |-> result = 0,
       error |-> "system_error",
       os |-> IF result = 0 THEN SetState(os, addr, n, "reserved") ELSE os,
       calls |-> <<OsCall("decommit", addr, n, result = 0)>>]

\* win32: result = VirtualFree(memory, size, MEM_DECOMMIT);
\* if (result == 0) throw
win32_virtual_memory_decommit(os, addr, n, osOk) ==
  LET result == IF osOk /\ AllMapped(os, addr, n) THEN 1 ELSE 0
  IN  [throws |-> result = 0,
       error |-> "system_error",
       os |-> IF result # 0 THEN SetState(os, addr, n, "reserved") ELSE os,
       calls |-> <<OsCall("decommit", addr, n, result # 0)>>]

virtual_memory_decommit(be, os, addr, n, osOk) ==
  IF be = "posix" THEN posix_virtual_memory_decommit(os, addr, n, osOk)
  ELSE IF be = "win32" THEN win32_virtual_memory_decommit(os, addr, n, osOk)
  ELSE default_virtual_memory_decommit(os, addr, n)

\* posix: result = munmap(memory, n * page_size); if (result == 0) throw.
\* munmap unmaps every page of the range and rejects a length of 0.
posix_virtual_memory_release(os, addr, n, osOk) ==
  LET result == IF osOk /\ n >= 1 THEN 0 ELSE 0 - 1
  IN  [throws |-> result = 0,
       error |-> "system_error",
       os |-> IF result = 0
                THEN [q \in 1 .. AddrPages |->
                        IF q \in PageRange(addr, n) THEN FreePage ELSE os[q]]
                ELSE os,
       calls |-> <<OsCall("release", addr, n, result = 0)>>]

\* win32: result = VirtualFree(memory, 0, MEM_RELEASE); if (result == 0) throw.
\* VirtualFree releases the whole reservation whose base address it is given.
win32_virtual_memory_release(os, addr, n, osOk) ==
  LET b == PageNo(addr)
      result == IF osOk /\ b \in 1 .. AddrPages /\ os[b].base = b THEN 1 ELSE 0
  IN  [throws |-> result = 0,
       error |-> "system_error",
       os |-> IF result # 0
                THEN [q \in 1 .. AddrPages |->
                        IF os[q].base = b THEN FreePage ELSE os[q]]
                ELSE os,
       calls |-> <<OsCall("release", addr, n, result # 0)>>]

virtual_memory_release(be, os, addr, n, osOk) ==
  IF be = "posix" THEN posix_virtual_memory_release(os, addr, n, osOk)
  ELSE IF be = "win32" THEN win32_virtual_memory_release(os, addr, n, osOk)
  ELSE default_virtual_memory_release(os, addr, n)

\* pages() and size_in_bytes()
pages(m) == m.pages
size_in_bytes(m) == PageSize * pages(m)

\* A page address computed without the page size.
page_address_unscaled(data, n) == data + n

\* m_data + (n * page_size())
page_address(data, n) == data + (n * PageSize)

\* memory_block::from_pointer_and_length(p, length)
from_pointer_and_length(p, length) == [start |-> p, end |-> p + length]
NoBlock == from_pointer_and_length(NullPtr, 0)

\* A release that leaves m_data in place.
release_keep(m) == m

\* std::exchange(m_data, nullptr): the object after release()
release_exchange(m) == [m EXCEPT !.data = NullPtr, !.nulledBy = "release"]

\* The state of the page a pointer lies in, as the system sees it.
StateAt(os, addr) ==
  IF PageNo(addr) \in 1 .. AddrPages THEN os[PageNo(addr)].st ELSE "free"

\* The record of a call: the object before it, the OS calls it issued, how
\* it ended, the pointer it used or returned, the block it returned and, for
\* decommit, the state the page was in.
VmOp(op, arg, n, calls, outcome, ptr, block, pageBefore) ==
  [op |-> op, arg |-> arg, n |-> n, before |-> regions[arg],
   pageBefore |-> pageBefore, calls |-> calls, outcome |-> outcome,
   ptr |-> ptr, block |-> block, dst |-> "none"]

NoVmOp == [op |-> "none", arg |-> "none", n |-> 0, before |-> NoRegion,
           pageBefore |-> "free", calls |-> <<>>, outcome |-> "ok",
           ptr |-> NullPtr, block |-> NoBlock, dst |-> "none"]

\* virtual_memory::reserve(pages)
Reserve(v, n) ==
  /\ ~terminated
  /\ ~regions[v].alive
  /\ \E b \in Placements(osPages, n) \cup {0} :
       LET r == virtual_memory_reserve(backend, osPages, n, b)
       IN  /\ osPages' = r.os
           /\ regions' = [regions EXCEPT
                            ![v] = IF r.throws THEN @ ELSE Region(r.addr, n)]
           /\ vmOp' = VmOp("reserve", v, n, r.calls,
                           IF r.throws THEN r.error ELSE "ok",
                           r.addr, NoBlock, "free")
  /\ UNCHANGED <<backend, terminated, lifeVars, cellVars, miscVars>>

\* virtual_memory(virtual_memory&& other)
MoveConstruct(src, dst) ==
  /\ ~terminated
  /\ src # dst
  /\ regions[src].alive
  /\ ~regions[dst].alive
  /\ regions' = [regions EXCEPT
                   ![dst] = Region(regions[src].data, regions[src].pages),
                   ![src] = [@ EXCEPT !.data = NullPtr, !.nulledBy = "move"]]
  /\ vmOp' = [VmOp("move", src, 0, <<>>, "ok", regions[src].data, NoBlock,
                   "free") EXCEPT !.dst = dst]
  /\ UNCHANGED <<backend, osPages, terminated, lifeVars, cellVars, miscVars>>

\* ~virtual_memory(): an exception leaving the destructor ends the process.
Destroy(v) ==
  /\ ~terminated
  /\ regions[v].alive
  /\ \E osOk \in BOOLEAN :
       LET m == regions[v]
           r == IF m.data # NullPtr
                  THEN virtual_memory_release(backend, osPages, m.data,
                                              pages(m), osOk)
                  ELSE [throws |-> FALSE, error |-> "none", os |-> osPages,
                        calls |-> <<>>]
       IN  /\ osPages' = r.os
           /\ terminated' = r.throws
           /\ regions' = [regions EXCEPT ![v] = IF r.throws THEN @ ELSE NoRegion]
           /\ vmOp' = VmOp("destroy", v, 0, r.calls,
                           IF r.throws THEN "terminate" ELSE "ok",
                           NullPtr, NoBlock, "free")
  /\ UNCHANGED <<backend, lifeVars, cellVars, miscVars>>

\* virtual_memory::commit(n)
Commit(v, n) ==
  /\ ~terminated
  /\ regions[v].alive
  /\ \E osOk \in BOOLEAN :
       LET size == PageSize
           p == page_address(regions[v].data, n)
           r == virtual_memory_commit(backend, osPages, p, 1, osOk)
       IN  /\ osPages' = r.os
           /\ vmOp' = VmOp("commit", v, n, r.calls,
                           IF r.throws THEN r.error ELSE "ok", p,
                           IF r.throws THEN NoBlock
                           ELSE from_pointer_and_length(p, size),
                           "free")
  /\ UNCHANGED <<backend, regions, terminated, lifeVars, cellVars, miscVars>>

\* virtual_memory::decommit(n)
Decommit(v, n) ==
  /\ ~terminated
  /\ regions[v].alive
  /\ \E osOk \in BOOLEAN :
       LET p == page_address(regions[v].data, n)
           r == virtual_memory_decommit(backend, osPages, p, 1, osOk)
       IN  /\ osPages' = r.os
           /\ vmOp' = VmOp("decommit", v, n, r.calls,
                           IF r.throws THEN r.error ELSE "ok", p,
                           NoBlock, StateAt(osPages, p))
  /\ UNCHANGED <<backend, regions, terminated, lifeVars, cellVars, miscVars>>

\* virtual_memory::release()
Release(v) ==
  /\ ~terminated
  /\ regions[v].alive
  /\ regions' = [regions EXCEPT ![v] = release_exchange(@)]
  /\ vmOp' = VmOp("release", v, 0, <<>>, "ok", regions[v].data, NoBlock,
                  "free")
  /\ UNCHANGED <<backend, osPages, terminated, lifeVars, cellVars, miscVars>>

\* empty(): pages() == 0u
empty(m) == pages(m) = 0

\* An index test that lets the page count itself through.
at_out_of_range_above(m, n) == n > pages(m)

\* at: if (n >= m_pages) throw std::out_of_range
at_out_of_range(m, n) == n >= pages(m)

\* operator[](n): the page at m_data + n * page_size(), page_size() long
subscript(m, n) ==
  from_pointer_and_length(page_address(m.data, n), PageSize)

\* virtual_memory::operator[](n)
Subscript(v, n) ==
  /\ ~terminated
  /\ regions[v].alive
  /\ vmOp' = VmOp("subscript", v, n, <<>>, "ok",
                  page_address(regions[v].data, n), subscript(regions[v], n),
                  "free")
  /\ UNCHANGED <<backend, regions, osPages, terminated, lifeVars, cellVars, miscVars>>

\* virtual_memory::at(n)
At(v, n) ==
  /\ ~terminated
  /\ regions[v].alive
  /\ vmOp' = IF at_out_of_range(regions[v], n)
               THEN VmOp("at", v, n, <<>>, "out_of_range", NullPtr, NoBlock,
                         "free")
               ELSE VmOp("at", v, n, <<>>, "ok",
                         page_address(regions[v].data, n),
                         subscript(regions[v], n), "free")
  /\ UNCHANGED <<backend, regions, osPages, terminated, lifeVars, cellVars, miscVars>>

\* virtual_memory::operator=(virtual_memory&& other): copy is move-built from
\* other, swapped with *this, and destroyed on return with what *this held;
\* operator= is noexcept, so an exception from that destruction ends the
\* process.
MoveAssign(src, dst) ==
  /\ ~terminated
  /\ regions[src].alive
  /\ regions[dst].alive
  /\ \E osOk \in BOOLEAN :
       LET copy == Region(regions[src].data, regions[src].pages)
           moved == [regions EXCEPT
                       ![src] = [@ EXCEPT !.data = NullPtr, !.nulledBy = "move"]]
           old == moved[dst]
           swapped == [moved EXCEPT
                         ![dst] = [copy EXCEPT
                                     !.nulledBy = regions[src].nulledBy]]
           r == IF old.data # NullPtr
                  THEN virtual_memory_release(backend, osPages, old.data,
                                              pages(old), osOk)
                  ELSE [throws |-> FALSE, error |-> "none", os |-> osPages,
                        calls |-> <<>>]
       IN  /\ osPages' = r.os
           /\ terminated' = r.throws
           /\ regions' = swapped
           /\ vmOp' = [VmOp("move_assign", src, 0, r.calls,
                            IF r.throws THEN "terminate" ELSE "ok",
                            regions[src].data, NoBlock, "free")
                         EXCEPT !.dst = dst]
  /\ UNCHANGED <<backend, lifeVars, cellVars, miscVars>>

\* The page-aligned non-null addresses a backend function can be given.
PageAddrs == {q * PageSize : q \in 1 .. AddrPages}

BackendOp(op, addr, n, r) ==
  [NoVmOp EXCEPT !.op = op, !.n = n, !.ptr = addr, !.calls = r.calls,
                 !.outcome = IF r.throws THEN r.error ELSE "ok"]

\* A direct call of virtual_memory_reserve(n)
BackendReserve(n) ==
  /\ \E b \in Placements(osPages, n) \cup {0} :
       LET r == virtual_memory_reserve(backend, osPages, n, b)
       IN  /\ osPages' = r.os
           /\ vmOp' = BackendOp("virtual_memory_reserve", r.addr, n, r)
  /\ UNCHANGED <<backend, regions, terminated, lifeVars, cellVars, miscVars>>

\* A direct call of virtual_memory_commit(memory, n)
BackendCommit(addr, n) ==
  /\ \E osOk \in BOOLEAN :
       LET r == virtual_memory_commit(backend, osPages, addr, n, osOk)
       IN  /\ osPages' = r.os
           /\ vmOp' = BackendOp("virtual_memory_commit", addr, n, r)
  /\ UNCHANGED <<backend, regions, terminated, lifeVars, cellVars, miscVars>>

\* A direct call of virtual_memory_decommit(memory, n)
BackendDecommit(addr, n) ==
  /\ \E osOk \in BOOLEAN :
       LET r == virtual_memory_decommit(backend, osPages, addr, n, osOk)
       IN  /\ osPages' = r.os
           /\ vmOp' = BackendOp("virtual_memory_decommit", addr, n, r)
  /\ UNCHANGED <<backend, regions, terminated, lifeVars, cellVars, miscVars>>

\* A direct call of virtual_memory_release(memory, n)
BackendRelease(addr, n) ==
  /\ \E osOk \in BOOLEAN :
       LET r == virtual_memory_release(backend, osPages, addr, n, osOk)
       IN  /\ osPages' = r.os
           /\ vmOp' = BackendOp("virtual_memory_release", addr, n, r)
  /\ UNCHANGED <<backend, regions, terminated, lifeVars, cellVars, miscVars>>

\* The build selects one backend; nothing is reserved yet.
VMInit ==
  /\ backend \in Backends
  /\ regions = [v \in RegionVarNames |-> NoRegion]
  /\ osPages = [q \in 1 .. AddrPages |-> FreePage]
  /\ vmOp = NoVmOp
  /\ terminated = FALSE

\* The virtual memory when another component is being examined.
VMIdle ==
  /\ backend = "posix"
  /\ regions = [v \in RegionVarNames |-> NoRegion]
  /\ osPages = [q \in 1 .. AddrPages |-> FreePage]
  /\ vmOp = NoVmOp
  /\ terminated = FALSE

(***************************************************************************)
(* memory_block: a pair of non-null byte addresses, begin <= end.          *)
(***************************************************************************)
\* The largest byte address of the blocks examined.
MaxAddr == 6

\* memory_block::empty(): m_begin == m_end
block_empty(b) == b.start = b.end

\* memory_block::size(): m_end - m_begin
block_size(b) == b.end - b.start

\* memory_block::contains(p):
\* less_equal(m_begin, p) && less_equal(p, m_end)
contains(b, p) == b.start <= p /\ p <= b.end

\* The blocks from_pointer_and_length builds inside the addresses examined.
Blocks ==
  {from_pointer_and_length(p, len) :
     p \in 1 .. MaxAddr, len \in 0 .. MaxAddr} \cap
  [start : 1 .. MaxAddr, end : 1 .. MaxAddr]

NoQuery == [fn |-> "none"]

BlockQuery(fn, b, p, result) ==
  [fn |-> fn, block |-> b, p |-> p, result |-> result]

\* b.contains(p)
Contains(b, p) ==
  /\ query' = BlockQuery("contains", b, p, contains(b, p))
  /\ UNCHANGED <<handlers, threads, stack, lifeVars, cellVars, vmVars>>

\* b.empty()
BlockEmpty(b) ==
  /\ query' = BlockQuery("empty", b, b.start, block_empty(b))
  /\ UNCHANGED <<handlers, threads, stack, lifeVars, cellVars, vmVars>>

\* b.size()
BlockSize(b) ==
  /\ query' = BlockQuery("size", b, b.start, block_size(b))
  /\ UNCHANGED <<handlers, threads, stack, lifeVars, cellVars, vmVars>>

(***************************************************************************)
(* The violation handlers of alignment_contract and not_null_contract.     *)
(* Each contract has an atomic g_handler; handlers[c].g_handler is its     *)
(* value and handlers[c].installed records what the latest                 *)
(* set_violation_handler call put there ("none" before any call).          *)
(***************************************************************************)
Contracts == {"alignment", "not_null"}

\* The handlers a program passes: its own functions, or nullptr.
CustomHandlers == {"h1", "h2", "h3"}
HandlerArgs == CustomHandlers \cup {"null"}

\* std::atomic::exchange(desired): stores desired, returns the old value
exchange(g, desired) == [g_handler |-> desired, returned |-> g]

\* set_violation_handler(handler):
\* if (handler == nullptr) return g_handler.exchange(&default_handler);
\* return g_handler.exchange(handler);
set_violation_handler(g, handler) ==
  IF handler = "null" THEN exchange(g, "default") ELSE exchange(g, handler)

\* get_violation_handler(): return g_handler.load();
get_violation_handler(g) == g

\* The state after static initialization: the g_handler of
\* alignment_contract is declared without an initializer and so holds
\* nullptr; that of not_null_contract is initialized with &default_handler.
HandlersIdle ==
  [alignment |-> [g_handler |-> "null", installed |-> "none"],
   not_null |-> [g_handler |-> "default", installed |-> "none"]]

HandlerCall(fn, contract, arg, returned) ==
  [fn |-> fn, contract |-> contract, arg |-> arg, returned |-> returned,
   before |-> handlers]

\* contract::set_violation_handler(h)
SetViolationHandler(c, h) ==
  /\ LET r == set_violation_handler(handlers[c].g_handler, h)
     IN  /\ handlers' = [handlers EXCEPT ![c] =
                           [g_handler |-> r.g_handler,
                            installed |-> IF h = "null" THEN "default" ELSE h]]
         /\ query' = HandlerCall("set_violation_handler", c, h, r.returned)
  /\ UNCHANGED <<threads, stack, lifeVars, cellVars, vmVars>>

\* contract::get_violation_handler()
GetViolationHandler(c) ==
  /\ query' = HandlerCall("get_violation_handler", c, "null",
                          get_violation_handler(handlers[c].g_handler))
  /\ UNCHANGED <<handlers, threads, stack, lifeVars, cellVars, vmVars>>

\* contract::violate(...): std::invoke(g_handler.load(), ...); std::abort();
\* The default handler throws the violation of its contract.  A handler of
\* the program throws, ends the program, or returns into std::abort.  A
\* call through a null function pointer is undefined: the build may fault,
\* or run on into std::abort.
violate(g) ==
  IF g = "null" THEN {"fault", "abort"}
  ELSE IF g = "default" THEN {"violation"}
  ELSE {"handler_throws", "handler_terminates", "abort"}

\* contract::violate(...): arg is the handler invoked, returned the outcome
Violate(c) ==
  /\ \E outcome \in violate(handlers[c].g_handler) :
       query' = HandlerCall("violate", c, handlers[c].g_handler, outcome)
  /\ UNCHANGED <<handlers, threads, stack, lifeVars, cellVars, vmVars>>

(***************************************************************************)
(* tagged_ptr<T, Bits>.  m_pointer is a uintptr_t of PtrBits bits that     *)
(* holds an address aligned to 2^Bits with a tag in its low Bits bits.     *)
(* The object examined is kept in query.m_pointer.                         *)
(***************************************************************************)
\* Bits, the number of tag bits, and the width of std::uintptr_t.
TagBits == 2
PtrBits == 4

RECURSIVE Pow2(_)
Pow2(n) == IF n = 0 THEN 1 ELSE 2 * Pow2(n - 1)

UintPtr == 0 .. Pow2(PtrBits) - 1

\* a & b and a | b on std::uintptr_t
RECURSIVE bit_and(_, _)
bit_and(a, b) ==
  IF a = 0 \/ b = 0 THEN 0
  ELSE 2 * bit_and(a \div 2, b \div 2) + (IF a % 2 = 1 /\ b % 2 = 1 THEN 1 ELSE 0)

RECURSIVE bit_or(_, _)
bit_or(a, b) ==
  IF a = 0 THEN b
  ELSE IF b = 0 THEN a
  ELSE 2 * bit_or(a \div 2, b \div 2) + (IF a % 2 = 1 \/ b % 2 = 1 THEN 1 ELSE 0)

\* tag_mask = std::uintptr_t{1u << Bits} - 1u; pointer_mask = ~tag_mask
tag_mask == Pow2(TagBits) - 1
pointer_mask == (Pow2(PtrBits) - 1) - tag_mask

\* The addresses aligned for tagging.
TaggablePointers == {p \in UintPtr : bit_and(p, tag_mask) = 0}

\* tagged_ptr(pointer p, std::uintptr_t tag): m_pointer{p | (tag & tag_mask)}
tagged_ptr(p, t) == bit_or(p, bit_and(t, tag_mask))

\* get(): m_pointer & pointer_mask
tagged_get(m_pointer) == bit_and(m_pointer, pointer_mask)

\* tag(): m_pointer & tag_mask
tagged_tag(m_pointer) == bit_and(m_pointer, tag_mask)

\* tag(t): m_pointer |= (t & tag_mask)
set_tag(m_pointer, t) == bit_or(m_pointer, bit_and(t, tag_mask))

\* reset(p): m_pointer &= tag_mask; m_pointer |= (p & pointer_mask)
tagged_reset(m_pointer, p) ==
  bit_or(bit_and(m_pointer, tag_mask), bit_and(p, pointer_mask))

TaggedFns == {"tagged_ptr", "tag", "reset"}

TaggedCall(fn, m_pointer, p, t, before) ==
  [fn |-> fn, m_pointer |-> m_pointer, p |-> p, t |-> t, before |-> before]

\* tagged_ptr<T, Bits> x{p, t}
TaggedConstruct(p, t) ==
  /\ query' = TaggedCall("tagged_ptr", tagged_ptr(p, t), p, t, 0)
  /\ UNCHANGED <<handlers, threads, stack, lifeVars, cellVars, vmVars>>

\* x.tag(t)
TaggedSetTag(t) ==
  /\ query.fn \in TaggedFns
  /\ query' = TaggedCall("tag", set_tag(query.m_pointer, t), 0, t,
                         query.m_pointer)
  /\ UNCHANGED <<handlers, threads, stack, lifeVars, cellVars, vmVars>>

\* x.reset(p)
TaggedReset(p) ==
  /\ query.fn \in TaggedFns
  /\ query' = TaggedCall("reset", tagged_reset(query.m_pointer, p), p, 0,
                         query.m_pointer)
  /\ UNCHANGED <<handlers, threads, stack, lifeVars, cellVars, vmVars>>

(***************************************************************************)
(* The compile-time checks of the Align parameter of cell and active_cell. *)
(* Align is a std::size_t, here of PtrBits bits; an instantiation is       *)
(* accepted when every static_assert of the class holds.                   *)
(***************************************************************************)
\* The values of alignof(T) examined, and the values of Align.
TypeAlignments == {1, 2, 4}
SizeT == 0 .. Pow2(PtrBits) - 1
Shapes == {"scalar", "dyn", "fixed"}

\* Align - 1 on std::size_t
size_t_minus_one(x) == (x + Pow2(PtrBits) - 1) % Pow2(PtrBits)

\* std::has_single_bit(x): exactly one bit of x is set
RECURSIVE popcount(_)
popcount(x) == IF x = 0 THEN 0 ELSE (x % 2) + popcount(x \div 2)
has_single_bit(x) == popcount(x) = 1

\* cell: static_assert(Align >= alignof(T));
\*       static_assert(std::has_single_bit(Align));
cell_accepts(shape, alignofT, Align) ==
  Align >= alignofT /\ has_single_bit(Align)

\* active_cell: static_assert(Align >= alignof(T));
\*              static_assert((Align & (Align-1)) == Align);
active_cell_accepts(shape, alignofT, Align) ==
  Align >= alignofT /\ bit_and(Align, size_t_minus_one(Align)) = Align

AlignCheck(fn, shape, alignofT, Align, accepted) ==
  [fn |-> fn, shape |-> shape, alignofT |-> alignofT, Align |-> Align,
   accepted |-> accepted]

\* An instantiation of cell<T, Align>, cell<T[], Align> or cell<T[N], Align>
InstantiateCell(shape, alignofT, Align) ==
  /\ query' = AlignCheck("cell", shape, alignofT, Align,
                         cell_accepts(shape, alignofT, Align))
  /\ UNCHANGED <<handlers, threads, stack, lifeVars, cellVars, vmVars>>

\* An instantiation of active_cell<T, Align>, active_cell<T[], Align> or
\* active_cell<T[N], Align>
InstantiateActiveCell(shape, alignofT, Align) ==
  /\ query' = AlignCheck("active_cell", shape, alignofT, Align,
                         active_cell_accepts(shape, alignofT, Align))
  /\ UNCHANGED <<handlers, threads, stack, lifeVars, cellVars, vmVars>>

(***************************************************************************)
(* Threads.  Several threads call one contract at a time.  A call of       *)
(* set_violation_handler or get_violation_handler touches g_handler in one *)
(* atomic operation (exchange, load) and is one step; violate loads        *)
(* g_handler in one step and invokes what it loaded in a later one, so     *)
(* other threads may swap the handler in between.  Each thread installs    *)
(* handlers of its own, each once.  threads records, per contract, the     *)
(* handlers installed and the values the set calls returned, both in the   *)
(* order of the exchanges, and the last value a get or a violate read.     *)
(***************************************************************************)
ThreadNames == {"t1", "t2"}

\* The handlers each thread installs, in its program order.
ThreadHandlers == [t1 |-> <<"h1", "h2">>, t2 |-> <<"h3">>]

ThreadsIdle ==
  [pc |-> [t \in ThreadNames |-> "idle"],
   next |-> [t \in ThreadNames |-> 1],
   loaded |-> [t \in ThreadNames |-> [contract |-> "none", handler |-> "null"]],
   installed |-> [c \in Contracts |-> <<>>],
   returned |-> [c \in Contracts |-> <<>>],
   read |-> [by |-> "none", contract |-> "none", handler |-> "null",
             outcome |-> "none"]]

ThreadRead(fn, c, g, outcome) ==
  [by |-> fn, contract |-> c, handler |-> g, outcome |-> outcome]

\* Thread t calls contract::set_violation_handler with its next handler.
ThreadSet(t, c) ==
  /\ threads.pc[t] = "idle"
  /\ threads.next[t] <= Len(ThreadHandlers[t])
  /\ LET h == ThreadHandlers[t][threads.next[t]]
         r == set_violation_handler(handlers[c].g_handler, h)
     IN  /\ handlers' = [handlers EXCEPT ![c] =
                           [g_handler |-> r.g_handler, installed |-> h]]
         /\ threads' = [threads EXCEPT
                          !.next[t] = @ + 1,
                          !.installed[c] = Append(@, h),
                          !.returned[c] = Append(@, r.returned)]
  /\ UNCHANGED <<query, stack, lifeVars, cellVars, vmVars>>

\* Thread t calls contract::get_violation_handler().
ThreadGet(t, c) ==
  /\ threads.pc[t] = "idle"
  /\ threads' = [threads EXCEPT
                   !.read = ThreadRead("get_violation_handler", c,
                              get_violation_handler(handlers[c].g_handler),
                              "ok")]
  /\ UNCHANGED <<query, handlers, stack, lifeVars, cellVars, vmVars>>

\* Thread t enters contract::violate: g_handler.load()
ThreadViolateLoad(t, c) ==
  /\ threads.pc[t] = "idle"
  /\ threads' = [threads EXCEPT
                   !.pc[t] = "invoke",
                   !.loaded[t] = [contract |-> c,
                                  handler |-> handlers[c].g_handler]]
  /\ UNCHANGED <<query, handlers, stack, lifeVars, cellVars, vmVars>>

\* Thread t goes on in contract::violate: std::invoke of what it loaded.
\* Whatever the outcome, the thread is then free for another call (a throw
\* is caught by its caller; the outcomes that end the process are recorded
\* without ending the model).
ThreadViolateInvoke(t) ==
  /\ threads.pc[t] = "invoke"
  /\ \E outcome \in violate(threads.loaded[t].handler) :
       threads' = [threads EXCEPT
                     !.pc[t] = "idle",
                     !.loaded[t] = ThreadsIdle.loaded[t],
                     !.read = ThreadRead("violate", threads.loaded[t].contract,
                                threads.loaded[t].handler, outcome)]
  /\ UNCHANGED <<query, handlers, stack, lifeVars, cellVars, vmVars>>

(***************************************************************************)
(* intrusive_pointer_stack.  The stack is the pointer m_head; every        *)
(* pointer pushed is the address of writable memory whose first word the   *)
(* stack uses as the link to the pointer below it.  mem is that word of    *)
(* every address.  pushed is the sequence of the pointers pushed and not   *)
(* yet popped, the latest first: what the stack should hold.  A read       *)
(* through a null pointer is undefined: it faults, or it yields the null   *)
(* word of a mapped page zero (nullRead says which).                       *)
(***************************************************************************)
\* The addresses a program pushes are 1 .. MaxStackAddr.
MaxStackAddr == 3
StackAddrs == 1 .. MaxStackAddr
NullReads == {"fault", "null"}

\* std::memcpy(&next, q, sizeof(std::byte*)): the link stored at q
link(mem, q) == mem[q]

\* push(p): memcpy(p, &m_head, ...); m_head = p
push(st, p) ==
  [st EXCEPT !.mem[p] = st.m_head, !.m_head = p]

\* pop(): memcpy(&result, m_head, ...); m_head = (*result);
\* result is the link stored at the head, and the new head is what that
\* link points at.
pop(st, nullRead) ==
  LET result == link(st.mem, st.m_head)
  IN  IF result = NullPtr
        THEN IF nullRead = "fault"
               THEN [outcome |-> "fault", st |-> st]
               ELSE [outcome |-> "ok", st |-> [st EXCEPT !.m_head = NullPtr]]
        ELSE [outcome |-> "ok",
              st |-> [st EXCEPT !.m_head = link(st.mem, result)]]

\* peek(): return m_head
peek(st) == st.m_head

\* empty(): m_head == nullptr
stack_empty(st) == st.m_head = NullPtr

\* The loop of contains(p): q = m_head; while (q != nullptr) { next = the
\* link stored at q; if (p == q) return true; q = *next; } return false;
\* nullLink tells whether a null link was read through.
RECURSIVE contains_loop(_, _, _, _, _)
contains_loop(mem, q, p, nullRead, fuel) ==
  IF q = NullPtr THEN [outcome |-> "ok", result |-> FALSE, nullLink |-> FALSE]
  ELSE IF fuel = 0 THEN [outcome |-> "hang", result |-> FALSE, nullLink |-> FALSE]
  ELSE
    LET next == link(mem, q)
    IN  IF p = q THEN [outcome |-> "ok", result |-> TRUE, nullLink |-> FALSE]
        ELSE IF next = NullPtr
          THEN [outcome |-> IF nullRead = "fault" THEN "fault" ELSE "ok",
                result |-> FALSE, nullLink |-> TRUE]
        ELSE contains_loop(mem, link(mem, next), p, nullRead, fuel - 1)

stack_contains(st, p, nullRead) ==
  contains_loop(st.mem, st.m_head, p, nullRead, MaxStackAddr)

\* The loop of size(): p = m_head; while (p != nullptr) { next = the link
\* stored at p; p = *next; ++result; } return result;
RECURSIVE size_loop(_, _, _, _, _)
size_loop(mem, p, result, nullRead, fuel) ==
  IF p = NullPtr THEN [outcome |-> "ok", result |-> result, nullLink |-> FALSE]
  ELSE IF fuel = 0 THEN [outcome |-> "hang", result |-> result, nullLink |-> FALSE]
  ELSE
    LET next == link(mem, p)
    IN  IF next = NullPtr
          THEN IF nullRead = "fault"
                 THEN [outcome |-> "fault", result |-> result, nullLink |-> TRUE]
                 ELSE [outcome |-> "ok", result |-> result + 1, nullLink |-> TRUE]
        ELSE LET r == size_loop(mem, link(mem, next), result + 1, nullRead,
                                fuel - 1)
             IN  r

stack_size(st, nullRead) == size_loop(st.mem, st.m_head, 0, nullRead, MaxStackAddr)

\* No call yet.
NoStackOp ==
  [fn |-> "none", arg |-> NullPtr, outcome |-> "ok", result |-> 0,
   flag |-> FALSE, nullLink |-> FALSE, headBefore |-> NullPtr,
   pushedBefore |-> <<>>]

\* A default-constructed stack over memory no one has written; the links of
\* that memory are not read before push writes them.
StackIdle ==
  [m_head |-> NullPtr, mem |-> [a \in StackAddrs |-> NullPtr],
   pushed |-> <<>>, dead |-> FALSE, op |-> NoStackOp]

StackOp(fn, arg, outcome, result, flag, nullLink) ==
  [fn |-> fn, arg |-> arg, outcome |-> outcome, result |-> result,
   flag |-> flag, nullLink |-> nullLink, headBefore |-> stack.m_head,
   pushedBefore |-> stack.pushed]

\* s.push(p), for an address not in the stack
Push(p) ==
  /\ ~stack.dead
  /\ \A j \in 1 .. Len(stack.pushed) : stack.pushed[j] # p
  /\ stack' = [push(stack, p) EXCEPT
                 !.pushed = <<p>> \o @,
                 !.op = StackOp("push", p, "ok", 0, FALSE, FALSE)]
  /\ UNCHANGED <<query, handlers, threads, lifeVars, cellVars, vmVars>>

\* s.pop(), on a stack that is not empty (the precondition of pop)
Pop(nullRead) ==
  /\ ~stack.dead
  /\ ~stack_empty(stack)
  /\ stack.pushed # <<>>
  /\ LET r == pop(stack, nullRead)
     IN  stack' = [r.st EXCEPT
                     !.pushed = Tail(@),
                     !.dead = r.outcome = "fault",
                     !.op = StackOp("pop", NullPtr, r.outcome, 0, FALSE,
                                    FALSE)]
  /\ UNCHANGED <<query, handlers, threads, lifeVars, cellVars, vmVars>>

\* s.peek()
Peek ==
  /\ ~stack.dead
  /\ stack' = [stack EXCEPT
                 !.op = StackOp("peek", NullPtr, "ok", peek(stack), FALSE,
                                FALSE)]
  /\ UNCHANGED <<query, handlers, threads, lifeVars, cellVars, vmVars>>

\* s.empty()
StackEmpty ==
  /\ ~stack.dead
  /\ stack' = [stack EXCEPT
                 !.op = StackOp("empty", NullPtr, "ok", 0, stack_empty(stack),
                                FALSE)]
  /\ UNCHANGED <<query, handlers, threads, lifeVars, cellVars, vmVars>>

\* s.size()
StackSize(nullRead) ==
  /\ ~stack.dead
  /\ LET r == stack_size(stack, nullRead)
     IN  stack' = [stack EXCEPT
                     !.dead = r.outcome = "fault",
                     !.op = StackOp("size", NullPtr, r.outcome, r.result,
                                    FALSE, r.nullLink)]
  /\ UNCHANGED <<query, handlers, threads, lifeVars, cellVars, vmVars>>

\* s.contains(p)
StackContains(p, nullRead) ==
  /\ ~stack.dead
  /\ LET r == stack_contains(stack, p, nullRead)
     IN  stack' = [stack EXCEPT
                     !.dead = r.outcome = "fault",
                     !.op = StackOp("contains", p, r.outcome, 0, r.result,
                                    r.nullLink)]
  /\ UNCHANGED <<query, handlers, threads, lifeVars, cellVars, vmVars>>

\* The queries, handlers, threads and stack when another component is being
\* examined.
MiscIdle ==
  /\ query = NoQuery
  /\ handlers = HandlersIdle
  /\ threads = ThreadsIdle
  /\ stack = StackIdle

(***************************************************************************)
(* Queries and conversions of cell.  They read a cell and build a result,  *)
(* so each is applied to any cell: a handle over one of two addresses, of  *)
(* any shape and length.  ndebug tells whether the build defines NDEBUG,   *)
(* which removes the abort of MSL_ASSERT.                                  *)
(***************************************************************************)
QLocs == {"p", "q"}

\* The static alignments examined.
Aligns == {2, 4, 8}

\* sizeof(T) of the element type examined.
ElemSize == 2

QCells == UNION {CellsOver(loc) : loc \in QLocs}
QArrays == {c \in QCells : c.shape \in {"dyn", "fixed"}}

\* size(): 1 for cell<T>, m_length for cell<T[]>, N for cell<T[N]>
cell_size(c) == c.len

\* size_in_bytes(): size() * size_of<T>()
cell_size_in_bytes(c) == cell_size(c) * ElemSize

\* traversal_utilities::access_at_offset(data(), n)
access_at_offset(data, n) == [loc |-> data, idx |-> n]
NoElem == access_at_offset(Null, 0)

\* cell<T[]>::at(n) / cell<T[N]>::at(n):
\* if (n < size()) throw_cell_out_of_range(n, size())
cell_at(c, n) ==
  IF n < cell_size(c)
    THEN [outcome |-> "out_of_range", elem |-> NoElem]
    ELSE [outcome |-> "ok", elem |-> access_at_offset(c.data, n)]

\* cell<T[]>::operator[](n) / cell<T[N]>::operator[](n):
\* MSL_ASSERT(n < size())
cell_subscript(c, n, ndebug) ==
  IF ~(n < cell_size(c)) /\ ~ndebug
    THEN [outcome |-> "abort", elem |-> NoElem]
    ELSE [outcome |-> "ok", elem |-> access_at_offset(c.data, n)]

\* A conversion to cell<T[]> that drops the length.
to_dynamic_unsized(c) == Handle("dyn", c.data, 0)

\* cell<T[], Align>::cell(const cell<U[N], UAlign>& other):
\* m_data{other.data()}, m_length{N}
to_dynamic(c) == Handle("dyn", c.data, c.len)

\* cell<T[N], Align>::cell(const cell<U[], UAlign>& other):
\* m_data{other.data()}; MSL_ASSERT(other.size() == N)
to_fixed(c, N, ndebug) ==
  IF ~(cell_size(c) = N) /\ ~ndebug
    THEN [outcome |-> "abort", cell |-> NoVar]
    ELSE [outcome |-> "ok", cell |-> Handle("fixed", c.data, N)]

\* An explicit-specifier with the alignments exchanged.
conversion_is_explicit_swapped(UAlign, Align) == Align < UAlign

\* explicit((UAlign < Align)) of the converting constructors
conversion_is_explicit(UAlign, Align) == UAlign < Align

\* cell<T, Align>::cell(const cell<U, UAlign>& other) and its array forms:
\* the pointer (and length) of other
convert_alignment(c) == Handle(c.shape, c.data, cell_size(c))

\* An equality that compares the pointers only.
cell_equals_address_only(lhs, rhs) == lhs.data = rhs.data

\* operator==(cell, cell): pointers for cell<T>; pointers and size() when an
\* operand is cell<T[]>; for cell<T[N]> and cell<U[M]> the pointers if
\* N == M and false otherwise.
cell_equals(lhs, rhs) ==
  IF lhs.shape = "scalar"
    THEN lhs.data = rhs.data
  ELSE IF lhs.shape = "fixed" /\ rhs.shape = "fixed"
    THEN IF lhs.len = rhs.len THEN lhs.data = rhs.data ELSE FALSE
  ELSE lhs.data = rhs.data /\ cell_size(lhs) = cell_size(rhs)

CellQuery(fn, c, other, n, ndebug, outcome, result, elem, flag) ==
  [fn |-> fn, cell |-> c, other |-> other, n |-> n, ndebug |-> ndebug,
   outcome |-> outcome, result |-> result, elem |-> elem,
   flag |-> flag]

\* c.at(n)
CellAt(c, n) ==
  /\ LET r == cell_at(c, n)
     IN  query' = CellQuery("at", c, NoVar, n, FALSE, r.outcome, NoVar,
                            r.elem, FALSE)
  /\ UNCHANGED <<handlers, threads, stack, lifeVars, cellVars, vmVars>>

\* c[n]
CellSubscript(c, n, ndebug) ==
  /\ LET r == cell_subscript(c, n, ndebug)
     IN  query' = CellQuery("subscript", c, NoVar, n, ndebug, r.outcome,
                            NoVar, r.elem, FALSE)
  /\ UNCHANGED <<handlers, threads, stack, lifeVars, cellVars, vmVars>>

\* cell<T[]>{c} for a cell<T[N]> c
ToDynamic(c) ==
  /\ c.shape = "fixed"
  /\ query' = CellQuery("to_dynamic", c, NoVar, 0, FALSE, "ok",
                        to_dynamic(c), NoElem, FALSE)
  /\ UNCHANGED <<handlers, threads, stack, lifeVars, cellVars, vmVars>>

\* cell<T[N]>{c} for a cell<T[]> c
ToFixed(c, N, ndebug) ==
  /\ c.shape = "dyn"
  /\ LET r == to_fixed(c, N, ndebug)
     IN  query' = CellQuery("to_fixed", c, NoVar, N, ndebug, r.outcome,
                            r.cell, NoElem, TRUE)
  /\ UNCHANGED <<handlers, threads, stack, lifeVars, cellVars, vmVars>>

\* cell<T[N]>{cell<T[]>{c}} for a cell<T[N]> c; other is the cell in between
FixedRoundTrip(c, ndebug) ==
  /\ c.shape = "fixed"
  /\ LET d == to_dynamic(c)
         r == to_fixed(d, c.len, ndebug)
     IN  query' = CellQuery("round_trip", c, d, c.len, ndebug, r.outcome,
                            r.cell, NoElem, TRUE)
  /\ UNCHANGED <<handlers, threads, stack, lifeVars, cellVars, vmVars>>

\* A cell of alignment A converted to the same shape with alignment B; n
\* carries A, elem.idx carries B and flag tells whether the constructor
\* chosen is explicit.
ConvertAlignment(c, A, B) ==
  /\ query' = CellQuery("convert_alignment", c, NoVar, A, FALSE, "ok",
                        convert_alignment(c), access_at_offset(Null, B),
                        conversion_is_explicit(A, B))
  /\ UNCHANGED <<handlers, threads, stack, lifeVars, cellVars, vmVars>>

\* lhs == rhs, for the operand shapes that have an operator==; flag carries
\* the answer.
CellEquals(lhs, rhs) ==
  /\ (lhs.shape = "scalar") = (rhs.shape = "scalar")
  /\ query' = CellQuery("equals", lhs, rhs, 0, FALSE, "ok", NoVar, NoElem,
                        cell_equals(lhs, rhs))
  /\ UNCHANGED <<handlers, threads, stack, lifeVars, cellVars, vmVars>>

LuIdle == [fn |-> "none", n |-> 0, failAt |-> Never, log |-> <<>>,
           outcome |-> "ok"]

(***************************************************************************)
(* The lifetime specification: any sequence of array construction and      *)
(* destruction calls, each with any inputs.                                *)
(***************************************************************************)
InitLifetime == lu = LuIdle /\ CellIdle /\ VMIdle /\ MiscIdle

NextLifetime ==
  \/ UsConstructArrayAt
  \/ UsConstructArrayAtCopy
  \/ LuConstructArrayAt
  \/ LuConstructArrayAtCopy
  \/ DestroyArrayAt

SpecLifetime == InitLifetime /\ [][NextLifetime]_vars

(***************************************************************************)
(* The cell specification: the program activates, deactivates, copies and  *)
(* moves its handles in any order.                                         *)
(***************************************************************************)
InitCells == lu = LuIdle /\ CellInit /\ VMIdle /\ MiscIdle

NextCells ==
  \/ \E cv \in CellVarNames, av \in ActVarNames : Activate(cv, av)
  \/ \E cv \in CellVarNames, av \in ActVarNames : ActivateArrayDyn(cv, av)
  \/ \E cv \in CellVarNames, av \in ActVarNames : ActivateArrayFixed(cv, av)
  \/ \E cv \in CellVarNames, av \in ActVarNames : ActivateArrayDynCopy(cv, av)
  \/ \E cv \in CellVarNames, av \in ActVarNames : ActivateArrayFixedCopy(cv, av)
  \/ \E av \in ActVarNames, cv \in CellVarNames : Deactivate(av, cv)
  \/ \E av \in ActVarNames, cv \in CellVarNames : DeactivateDyn(av, cv)
  \/ \E av \in ActVarNames, cv \in CellVarNames : DeactivateFixed(av, cv)
  \/ \E src \in CellVarNames, dst \in CellVarNames : CopyCell(src, dst)
  \/ \E src \in ActVarNames, dst \in ActVarNames : MoveActive(src, dst)

SpecCells == InitCells /\ [][NextCells]_vars

(***************************************************************************)
(* The virtual memory specification: the program reserves, moves, commits, *)
(* decommits, releases and destroys regions in any order, with any index.  *)
(***************************************************************************)
InitVM == lu = LuIdle /\ CellIdle /\ VMInit /\ MiscIdle

NextVM ==
  \/ \E v \in RegionVarNames, n \in 0 .. MaxPages : Reserve(v, n)
  \/ \E src \in RegionVarNames, dst \in RegionVarNames : MoveConstruct(src, dst)
  \/ \E v \in RegionVarNames : Destroy(v)
  \/ \E v \in RegionVarNames, n \in 0 .. MaxPages : Commit(v, n)
  \/ \E v \in RegionVarNames, n \in 0 .. MaxPages : Decommit(v, n)
  \/ \E v \in RegionVarNames : Release(v)

SpecVM == InitVM /\ [][NextVM]_vars

(***************************************************************************)
(* The page specification: regions are reserved and destroyed, and their   *)
(* pages committed and decommitted with any index.                         *)
(***************************************************************************)
NextVMPages ==
  \/ \E v \in RegionVarNames, n \in 0 .. MaxPages : Reserve(v, n)
  \/ \E v \in RegionVarNames : Destroy(v)
  \/ \E v \in RegionVarNames, n \in 0 .. MaxPages : Commit(v, n)
  \/ \E v \in RegionVarNames, n \in 0 .. MaxPages : Decommit(v, n)

SpecVMPages == InitVM /\ [][NextVMPages]_vars

(***************************************************************************)
(* The ownership and access specification: regions are reserved, moved,    *)
(* move-assigned, released, destroyed and indexed, with any index.         *)
(***************************************************************************)
NextVMAccess ==
  \/ \E v \in RegionVarNames, n \in 0 .. MaxPages : Reserve(v, n)
  \/ \E src \in RegionVarNames, dst \in RegionVarNames : MoveConstruct(src, dst)
  \/ \E src \in RegionVarNames, dst \in RegionVarNames : MoveAssign(src, dst)
  \/ \E v \in RegionVarNames : Destroy(v)
  \/ \E v \in RegionVarNames : Release(v)
  \/ \E v \in RegionVarNames, n \in 0 .. MaxPages + 1 : Subscript(v, n)
  \/ \E v \in RegionVarNames, n \in 0 .. MaxPages + 1 : At(v, n)

SpecVMAccess == InitVM /\ [][NextVMAccess]_vars

(***************************************************************************)
(* The memory_block specification: the queries of any block, with any      *)
(* address.                                                                *)
(***************************************************************************)
InitBlocks == lu = LuIdle /\ CellIdle /\ VMIdle /\ MiscIdle

NextBlocks ==
  \/ \E b \in Blocks, p \in 1 .. MaxAddr : Contains(b, p)
  \/ \E b \in Blocks : BlockEmpty(b)
  \/ \E b \in Blocks : BlockSize(b)

SpecBlocks == InitBlocks /\ [][NextBlocks]_vars

(***************************************************************************)
(* The cell query specification: every query and conversion, applied to    *)
(* any cell with any index, length and alignment.                          *)
(***************************************************************************)
InitCellQueries == lu = LuIdle /\ CellIdle /\ VMIdle /\ MiscIdle

NextCellQueries ==
  \/ \E c \in QArrays, n \in 0 .. MaxN + 1 : CellAt(c, n)
  \/ \E c \in QArrays, n \in 0 .. MaxN + 1, ndebug \in BOOLEAN :
       CellSubscript(c, n, ndebug)
  \/ \E c \in QArrays : ToDynamic(c)
  \/ \E c \in QArrays, N \in 1 .. MaxN, ndebug \in BOOLEAN : ToFixed(c, N, ndebug)
  \/ \E c \in QArrays, ndebug \in BOOLEAN : FixedRoundTrip(c, ndebug)
  \/ \E c \in QCells, A \in Aligns, B \in Aligns : ConvertAlignment(c, A, B)
  \/ \E lhs \in QCells, rhs \in QCells : CellEquals(lhs, rhs)

SpecCellQueries == InitCellQueries /\ [][NextCellQueries]_vars

(***************************************************************************)
(* The handler specification: any sequence of set_violation_handler and    *)
(* get_violation_handler calls on the two contracts.                       *)
(***************************************************************************)
InitHandlers == lu = LuIdle /\ CellIdle /\ VMIdle /\ MiscIdle

NextHandlers ==
  \/ \E c \in Contracts, h \in HandlerArgs : SetViolationHandler(c, h)
  \/ \E c \in Contracts : GetViolationHandler(c)
  \/ \E c \in Contracts : Violate(c)

SpecHandlers == InitHandlers /\ [][NextHandlers]_vars

(***************************************************************************)
(* The thread specification: the threads call the contracts in any         *)
(* interleaving of their atomic operations.                                *)
(***************************************************************************)
InitHandlerThreads == lu = LuIdle /\ CellIdle /\ VMIdle /\ MiscIdle

NextHandlerThreads ==
  \/ \E t \in ThreadNames, c \in Contracts : ThreadSet(t, c)
  \/ \E t \in ThreadNames, c \in Contracts : ThreadGet(t, c)
  \/ \E t \in ThreadNames, c \in Contracts : ThreadViolateLoad(t, c)
  \/ \E t \in ThreadNames : ThreadViolateInvoke(t)

SpecHandlerThreads == InitHandlerThreads /\ [][NextHandlerThreads]_vars

(***************************************************************************)
(* The stack specification: any sequence of calls on one                   *)
(* intrusive_pointer_stack.                                                *)
(***************************************************************************)
InitStack == lu = LuIdle /\ CellIdle /\ VMIdle /\ MiscIdle

NextStack ==
  \/ \E p \in StackAddrs : Push(p)
  \/ \E nullRead \in NullReads : Pop(nullRead)
  \/ Peek
  \/ StackEmpty
  \/ \E nullRead \in NullReads : StackSize(nullRead)
  \/ \E p \in StackAddrs, nullRead \in NullReads : StackContains(p, nullRead)

SpecStack == InitStack /\ [][NextStack]_vars

(***************************************************************************)
(* The tagged pointer specification: a tagged_ptr is built and then        *)
(* retagged and reset with any values.                                     *)
(***************************************************************************)
InitTagged == lu = LuIdle /\ CellIdle /\ VMIdle /\ MiscIdle

NextTagged ==
  \/ \E p \in TaggablePointers, t \in UintPtr : TaggedConstruct(p, t)
  \/ \E t \in UintPtr : TaggedSetTag(t)
  \/ \E p \in TaggablePointers : TaggedReset(p)

SpecTagged == InitTagged /\ [][NextTagged]_vars

(***************************************************************************)
(* The alignment check specification: cell and active_cell are             *)
(* instantiated with any shape, element alignment and Align.               *)
(***************************************************************************)
InitAlignCheck == lu = LuIdle /\ CellIdle /\ VMIdle /\ MiscIdle

NextAlignCheck ==
  \/ \E shape \in Shapes, alignofT \in TypeAlignments, Align \in SizeT :
       InstantiateCell(shape, alignofT, Align)
  \/ \E shape \in Shapes, alignofT \in TypeAlignments, Align \in SizeT :
       InstantiateActiveCell(shape, alignofT, Align)

SpecAlignCheck == InitAlignCheck /\ [][NextAlignCheck]_vars

(***************************************************************************)
(* The backend specification: the four functions of virtual_memory_impl.hpp *)
(* called directly, on any backend, with any page address and count.       *)
(***************************************************************************)
NextBackend ==
  \/ \E n \in 0 .. MaxPages : BackendReserve(n)
  \/ \E addr \in PageAddrs, n \in 1 .. MaxPages : BackendCommit(addr, n)
  \/ \E addr \in PageAddrs, n \in 1 .. MaxPages : BackendDecommit(addr, n)
  \/ \E addr \in PageAddrs, n \in 1 .. MaxPages : BackendRelease(addr, n)

SpecBackend == InitVM /\ [][NextBackend]_vars

(***************************************************************************)
(* Claims about the lifetime utilities.                                    *)
(***************************************************************************)
ConstructFns == {"us_default", "us_copy", "lu_default", "lu_copy"}

IsDestroy(e) == e.op = "destroy"
Destroys(log) == SelectSeq(log, IsDestroy)

\* C1: rollback law of construct_array_at.  When the construction at index k
\* (0 <= k < n) of an n element array fails, the call's events are: the
\* constructions of 0 .. k-1, the failed attempt at k, then exactly k
\* destructions, of k-1, k-2, ..., 0 in this order; nothing is attempted at an
\* index above k, and the call ends by raising the failure to its caller.
C1_RollbackLaw ==
  (lu.fn \in ConstructFns /\ lu.failAt >= 0 /\ lu.failAt < lu.n) =>
    LET k == lu.failAt
        d == Destroys(lu.log)
    IN  /\ lu.outcome = "throw"
        /\ Len(d) = k
        /\ \A j \in 1 .. k : d[j].idx = k - j
        /\ \A j \in 1 .. Len(lu.log) : lu.log[j].idx <= k
        /\ Len(lu.log) = 2 * k + 1
        /\ \A j \in 1 .. k : lu.log[j] = Ev("construct", j - 1)
        /\ lu.log[k + 1] = Ev("fail", k)
        /\ \A j \in k + 2 .. 2 * k + 1 : IsDestroy(lu.log[j])

\* A call of three elements whose last construction failed and was rolled back.
C1_Witness ==
  /\ lu.fn = "us_default" /\ lu.n = 3 /\ lu.failAt = 2
  /\ lu.outcome = "throw"
  /\ Destroys(lu.log) = <<Ev("destroy", 1), Ev("destroy", 0)>>

(***************************************************************************)
(* Claims about the cells.                                                 *)
(***************************************************************************)
ActivateOps == {"activate", "activate_array", "activate_array_copy"}

\* C2: when an element construction fails during activate / activate_array,
\* the failure reaches the caller, the cell variable still holds the address
\* and length it had, no active_cell was produced, and every element of the
\* storage is as live as it was before the call (none is left constructed).
C2_FailedActivationLeavesCell ==
  (cellOp.op \in ActivateOps /\ cellOp.outcome = "throw") =>
    /\ cells[cellOp.arg] = cellOp.before
    /\ Usable(cells[cellOp.arg])
    /\ ~Usable(acts[cellOp.dst])
    /\ cellOp.result = NoVar
    /\ liveCnt = cellOp.liveBefore

\* The third construction of a three element array failed.
C2_Witness ==
  /\ cellOp.op = "activate_array" /\ cellOp.outcome = "throw"
  /\ cellOp.before.len = 3 /\ cellOp.failAt = 2
  /\ Len(cellOp.log) = 5

C5_OneLifetimeAtATime ==
  \A l \in Locs : \A i \in 0 .. MaxN - 1 : liveCnt[l][i] \in {0, 1}

\* C6: at most one usable handle, cell or active_cell, refers to a storage
\* location at any time.
C6_SingleOwner ==
  \A l \in Locs :
    Cardinality({v \in CellVarNames : cells[v].data = l})
      + Cardinality({v \in ActVarNames : acts[v].data = l}) <= 1

(***************************************************************************)
(* virtual_memory claims, stated over SpecVM.                               *)
(***************************************************************************)
\* The pages of the reservation a region owned before the last call.
PagesOwnedBefore ==
  {q \in PageRange(vmOp.before.data, vmOp.before.pages) : q \in 1 .. AddrPages}

\* Every OS call of the last operation succeeded at the OS.
OsSucceeded == \A j \in 1 .. Len(vmOp.calls) : vmOp.calls[j].ok

\* The last call used a valid page index of an owning region.
ValidIndex ==
  vmOp.before.data # NullPtr /\ vmOp.n >= 0 /\ vmOp.n < vmOp.before.pages

\* C7: after a successful reserve(n) the region reports pages() = n and
\* size_in_bytes() = n * page_size; a successful commit(i) with a valid index
\* returns the block that starts at data() + i * page_size and is page_size
\* bytes long.
C7_ReserveAndCommitGeometry ==
  /\ (vmOp.op = "reserve" /\ vmOp.outcome = "ok") =>
       /\ pages(regions[vmOp.arg]) = vmOp.n
       /\ size_in_bytes(regions[vmOp.arg]) = vmOp.n * PageSize
       /\ regions[vmOp.arg].data # NullPtr
  /\ (vmOp.op = "commit" /\ vmOp.outcome = "ok" /\ ValidIndex) =>
       /\ vmOp.block.start = regions[vmOp.arg].data + vmOp.n * PageSize
       /\ vmOp.block.end - vmOp.block.start = PageSize
       /\ osPages[PageNo(vmOp.block.start)].st = "committed"

\* A two-page region whose second page has just been committed.
C7_Witness ==
  /\ vmOp.op = "commit"
  /\ vmOp.outcome = "ok"
  /\ vmOp.n = 1
  /\ pages(regions[vmOp.arg]) = 2
  /\ size_in_bytes(regions[vmOp.arg]) = 2 * PageSize
  /\ vmOp.block.start = regions[vmOp.arg].data + PageSize

\* C8: destroying a region that owns a reservation issues exactly one OS
\* release call, for that reservation, and completes normally when the OS
\* call succeeds; destroying a moved-from region issues no OS call.
C8_DestroyReleasesOnce ==
  vmOp.op = "destroy" =>
    IF vmOp.before.data # NullPtr
      THEN /\ vmOp.calls = <<OsCall("release", vmOp.before.data,
                                    vmOp.before.pages, vmOp.calls[1].ok)>>
           /\ (vmOp.calls[1].ok => vmOp.outcome = "ok")
      ELSE vmOp.calls = <<>> /\ vmOp.outcome = "ok"

C10_CommitDecommitCycle ==
  /\ (vmOp.op = "commit" /\ ValidIndex /\ OsSucceeded) =>
       /\ vmOp.outcome = "ok"
       /\ osPages[PageNo(vmOp.ptr)].st = "committed"
  /\ (vmOp.op = "decommit" /\ ValidIndex /\ OsSucceeded
        /\ vmOp.pageBefore = "committed") =>
       /\ vmOp.outcome = "ok"
       /\ osPages[PageNo(vmOp.ptr)].st = "reserved"

\* C11: whenever the OS call underlying reserve, commit, decommit or the
\* release of a reservation fails, the operation does not return normally:
\* it surfaces a system error.
C11_OsFailureSurfaces ==
  (vmOp.op \in {"reserve", "commit", "decommit", "destroy"}
     /\ \E j \in 1 .. Len(vmOp.calls) : ~vmOp.calls[j].ok) =>
    vmOp.outcome # "ok"

\* C12: at(n) fails with an out-of-range error for every n >= pages(); for
\* every n < pages() it returns without error the page operator[](n)
\* denotes, which starts at data() + n * page_size and is page_size long.
C12_AtChecksIndex ==
  vmOp.op = "at" =>
    LET m == regions[vmOp.arg]
    IN  IF vmOp.n >= pages(m)
          THEN vmOp.outcome = "out_of_range" /\ vmOp.block = NoBlock
          ELSE /\ vmOp.outcome = "ok"
               /\ vmOp.block = subscript(m, vmOp.n)
               /\ vmOp.block.start = m.data + vmOp.n * PageSize
               /\ vmOp.block.end - vmOp.block.start = PageSize

\* at(2) has just been refused on an owning two-page region.
C12_Witness ==
  /\ vmOp.op = "at"
  /\ vmOp.n = 2
  /\ pages(regions[vmOp.arg]) = 2
  /\ regions[vmOp.arg].data # NullPtr
  /\ vmOp.outcome = "out_of_range"

\* C13: after a move construction or move assignment between two regions the
\* source has a null data(), is empty() and is destroyed without an OS call,
\* and the destination holds the source's former pointer and page count.
C13_MovedFromIsEmpty ==
  /\ (vmOp.op \in {"move", "move_assign"} /\ vmOp.arg # vmOp.dst) =>
       /\ regions[vmOp.arg].data = NullPtr
       /\ empty(regions[vmOp.arg])
       /\ regions[vmOp.dst].data = vmOp.before.data
       /\ pages(regions[vmOp.dst]) = vmOp.before.pages
  /\ (vmOp.op = "destroy" /\ vmOp.before.nulledBy = "move") =>
       vmOp.calls = <<>> /\ vmOp.outcome = "ok"

BackendOps == {"virtual_memory_reserve", "virtual_memory_commit",
               "virtual_memory_decommit", "virtual_memory_release"}

\* C14: on the default backend every function (reserve, commit, decommit,
\* release) fails with the not-implemented error, which is not the system
\* error of an OS failure; none returns normally, and none touches the OS.
C14_DefaultBackendFailsLoudly ==
  (backend = "default" /\ vmOp.op \in BackendOps) =>
    /\ vmOp.outcome = "not_implemented"
    /\ vmOp.outcome # "system_error"
    /\ vmOp.calls = <<>>
    /\ \A q \in 1 .. AddrPages : osPages[q] = FreePage

\* virtual_memory_decommit has just been refused by the default backend.
C14_Witness ==
  /\ backend = "default"
  /\ vmOp.op = "virtual_memory_decommit"
  /\ vmOp.outcome = "not_implemented"

\* C15: contains(p) is true if and only if begin <= p < end; the
\* one-past-the-end address is not contained and the null block contains no
\* address.
C15_ContainsHalfOpen ==
  query.fn = "contains" =>
    /\ query.result = (query.block.start <= query.p /\ query.p < query.block.end)
    /\ (query.p = query.block.end => ~query.result)
    /\ (block_empty(query.block) => ~query.result)

(***************************************************************************)
(* Cell query claims, stated over SpecCellQueries.                         *)
(***************************************************************************)
\* C16: for array cells at(i) fails with an out-of-bounds error exactly when
\* i >= size(); for i < size() it returns without error the element at
\* index i, the one operator[](i) denotes.
C16_CellAtChecksIndex ==
  query.fn = "at" =>
    IF query.n >= cell_size(query.cell)
      THEN query.outcome = "out_of_range"
      ELSE /\ query.outcome = "ok"
           /\ query.elem = access_at_offset(query.cell.data, query.n)
           /\ query.elem = cell_subscript(query.cell, query.n, FALSE).elem

\* The two conversions between cell<T[N]> and cell<T[]> keep the address,
\* and the length where the lengths agree.
RoundTripKeepsCell ==
  /\ query.fn = "to_dynamic" =>
       query.result = Handle("dyn", query.cell.data, query.cell.len)
  /\ query.fn = "round_trip" =>
       /\ query.other.data = query.cell.data
       /\ cell_size(query.other) = query.cell.len
       /\ query.outcome = "ok"
       /\ query.result = query.cell
  /\ (query.fn = "to_fixed" /\ cell_size(query.cell) = query.n) =>
       /\ query.outcome = "ok"
       /\ query.result = Handle("fixed", query.cell.data, query.n)

\* C17 as stated: a cell<T[N]> converted to cell<T[]> has the same address
\* and length N, converting back gives the original address and length, and
\* converting a cell<T[]> whose length differs from N to cell<T[N]> always
\* stops at the assertion and never yields a cell.
C17_MismatchNeverAccepted ==
  /\ RoundTripKeepsCell
  /\ (query.fn = "to_fixed" /\ cell_size(query.cell) # query.n) =>
       /\ query.outcome = "abort"
       /\ query.result = NoVar

\* C17 as the code has it: the round trip keeps address and length; a
\* mismatched length stops at the assertion in builds that keep assertions,
\* and with NDEBUG the conversion yields a cell<T[N]> at the same address
\* whose length is N, not the run-time length.
C17_RoundTripAndAssertedMismatch ==
  /\ RoundTripKeepsCell
  /\ (query.fn = "to_fixed" /\ cell_size(query.cell) # query.n) =>
       IF query.ndebug
         THEN /\ query.outcome = "ok"
              /\ query.result = Handle("fixed", query.cell.data, query.n)
         ELSE /\ query.outcome = "abort"
              /\ query.result = NoVar

C17_Witness ==
  /\ query.fn = "round_trip"
  /\ query.cell.len = MaxN
  /\ ~query.ndebug
  /\ query.result = query.cell

C19_CellEquality ==
  query.fn = "equals" =>
    LET lhs == query.cell
        rhs == query.other
    IN  /\ lhs.shape = "scalar" => (query.flag <=> lhs.data = rhs.data)
        /\ lhs.shape # "scalar" =>
             (query.flag <=>
                (lhs.data = rhs.data /\ cell_size(lhs) = cell_size(rhs)))
        /\ query.flag = cell_equals(rhs, lhs)

C19_Witness ==
  /\ query.fn = "equals"
  /\ query.cell.shape = "fixed"
  /\ query.other.shape = "fixed"
  /\ query.cell.data = query.other.data
  /\ query.cell.len # query.other.len
  /\ ~query.flag

(***************************************************************************)
(* Violation handler claims, stated over SpecHandlers.                     *)
(***************************************************************************)
\* The handler of contract c that is installed in the state h: the one the
\* latest set_violation_handler call installed, or the default handler when
\* the program has not installed any.
InstalledHandler(h, c) ==
  IF h[c].installed = "none" THEN "default" ELSE h[c].installed

\* C20: for the alignment contract and for the not-null contract,
\* set_violation_handler(h) with a non-null h installs h and returns the
\* handler that was installed immediately before the call, leaving the other
\* contract alone; get_violation_handler() returns the most recently
\* installed handler and changes nothing.
C20_InstallAndSwap ==
  /\ (query.fn = "set_violation_handler" /\ query.arg # "null") =>
       /\ handlers[query.contract].g_handler = query.arg
       /\ query.returned = InstalledHandler(query.before, query.contract)
       /\ \A c \in Contracts \ {query.contract} :
            handlers[c] = query.before[c]
  /\ query.fn = "get_violation_handler" =>
       /\ handlers = query.before
       /\ query.returned = InstalledHandler(handlers, query.contract)

\* C21: when the program has never installed a handler, a violation of the
\* alignment contract and a violation of the not-null contract each invoke
\* the default handler, which raises the violation error of the contract to
\* the caller; violate never calls a null handler.
C21_DefaultHandlerThrows ==
  query.fn = "violate" =>
    /\ query.arg # "null"
    /\ query.before[query.contract].installed = "none" =>
         /\ query.arg = "default"
         /\ query.returned = "violation"

(***************************************************************************)
(* More claims about the lifetime utilities, stated over SpecLifetime.     *)
(***************************************************************************)
IsFail(e) == e.op = "fail"

\* C22: for every element count n, zero included, and for the default and
\* the copy overloads, a construct_array_at call in which no construction
\* fails constructs the elements 0 .. n-1, each once and in increasing
\* order, constructs nothing at an index >= n, and returns.
C22_ConstructsExactlyN ==
  (lu.fn \in ConstructFns /\ SelectSeq(lu.log, IsFail) = <<>>) =>
    /\ lu.log = [j \in 1 .. lu.n |-> Ev("construct", j - 1)]
    /\ lu.n > 0 => lu.outcome = "ok"
    /\ lu.outcome # "crash"

(***************************************************************************)
(* Claims about the pages of a region, stated over SpecVMPages.            *)
(***************************************************************************)
\* What the step of a commit or decommit of page n of region v, a valid
\* index of an owning region, may change (vmOp' is the record of the call): the one OS call covers exactly the page at
\* data() + n * page_size(); that page ends in the state st when the call
\* succeeds and stays as it was when it fails; every other page of the
\* address space and the region itself stay as they were.
PageFrame(v, n, fn, st) ==
  LET m == regions[v]
      q == PageNo(m.data) + n
  IN  (m.data # NullPtr /\ n < pages(m)) =>
        /\ Len(vmOp'.calls) = 1
        /\ vmOp'.calls[1].fn = fn
        /\ vmOp'.calls[1].addr = m.data + n * PageSize
        /\ vmOp'.calls[1].n = 1
        /\ osPages'[q].st = IF vmOp'.calls[1].ok THEN st ELSE osPages[q].st
        /\ osPages'[q].base = osPages[q].base
        /\ \A o \in (1 .. AddrPages) \ {q} : osPages'[o] = osPages[o]
        /\ regions' = regions

Range(seq) == {seq[j] : j \in 1 .. Len(seq)}
Occurrences(seq, x) == Cardinality({j \in 1 .. Len(seq) : seq[j] = x})

\* C24: with set_violation_handler calls of several threads interleaved with
\* get_violation_handler and violate, the swaps are atomic: the values the
\* set calls returned, together with the handler installed at the end, hold
\* every installed handler exactly once, none lost and none returned twice;
\* and every read, by get_violation_handler or by violate, observes a
\* handler that was installed at some point, the default handler being
\* installed from the start.
C24_AtomicSwaps ==
  /\ \A c \in Contracts :
       LET chain == Append(threads.returned[c], handlers[c].g_handler)
       IN  /\ Len(chain) = Len(threads.installed[c]) + 1
           /\ \A h \in Range(threads.installed[c]) : Occurrences(chain, h) = 1
  /\ threads.read.by # "none" =>
       threads.read.handler \in
         {"default"} \cup Range(threads.installed[threads.read.contract])

(***************************************************************************)
(* Claims about intrusive_pointer_stack, stated over SpecStack.            *)
(***************************************************************************)
\* The pointers linked from q, each link followed once: what a stack whose
\* head is q holds, from the top down.
RECURSIVE Linked(_, _, _)
Linked(mem, q, fuel) ==
  IF q = NullPtr \/ fuel = 0 THEN <<>>
  ELSE <<q>> \o Linked(mem, link(mem, q), fuel - 1)

\* The stack held pushedBefore, linked as push links it, when the last call
\* began (no call but push writes a link).
WellLinkedBefore ==
  Linked(stack.mem, stack.op.headBefore, MaxStackAddr) = stack.op.pushedBefore

\* C25: on a non-empty stack built by pushes of distinct addresses, pop()
\* removes exactly the pointer pushed last: it returns normally, the stack
\* holds one pointer less, and peek() is the pointer that was the top before
\* that push, null when the stack has become empty.
C25_PopIsLifo ==
  (stack.op.fn = "pop" /\ WellLinkedBefore) =>
    LET before == stack.op.pushedBefore
    IN  /\ stack.op.outcome = "ok"
        /\ peek(stack) = IF Len(before) >= 2 THEN before[2] ELSE NullPtr
        /\ Len(Linked(stack.mem, stack.m_head, MaxStackAddr)) = Len(before) - 1
        /\ stack_empty(stack) = (Len(before) = 1)

\* C26: after push(p) on a stack holding k pointers, peek() returns p and
\* empty() is false; on the stack the pushes built, size() returns the
\* number of pointers held, contains(q) is true for every pointer held, the
\* one pushed last and the earlier ones alike, and size() and contains()
\* end without reading through a null link.
C26_PushIsObservable ==
  /\ stack.op.fn = "push" =>
       /\ peek(stack) = stack.op.arg
       /\ ~stack_empty(stack)
  /\ (stack.op.fn = "size" /\ WellLinkedBefore) =>
       /\ stack.op.outcome = "ok"
       /\ stack.op.result = Len(stack.op.pushedBefore)
       /\ ~stack.op.nullLink
  /\ (stack.op.fn = "contains" /\ WellLinkedBefore) =>
       /\ stack.op.outcome = "ok"
       /\ stack.op.flag = (stack.op.arg \in Range(stack.op.pushedBefore))
       /\ ~stack.op.nullLink

(***************************************************************************)
(* Claims about tagged_ptr, stated over SpecTagged.                        *)
(***************************************************************************)
\* C27: tag(t) sets the tag to t truncated to the low Bits bits, whatever
\* tag was stored before: afterwards tag() is t mod 2^Bits and get() is
\* unchanged; a tag set over a different non-zero tag replaces it.
C27_TagReplaces ==
  query.fn = "tag" =>
    /\ tagged_tag(query.m_pointer) = query.t % Pow2(TagBits)
    /\ tagged_get(query.m_pointer) = tagged_get(query.before)

(***************************************************************************)
(* Claims about moving regions, stated over SpecVMAccess.                  *)
(***************************************************************************)
\* What a step that gives up the reservation of the region object m must
\* do (vmOp' is the record of the call): when m owns a reservation, one OS
\* release call for exactly that reservation, which is still mapped, and,
\* when the OS call succeeds, a normal return with the pages of the
\* reservation free; when m owns nothing, no OS call and a normal return.
ReleasesOnce(m) ==
  IF m.data # NullPtr
    THEN /\ Len(vmOp'.calls) = 1
         /\ vmOp'.calls[1].fn = "release"
         /\ vmOp'.calls[1].addr = m.data
         /\ vmOp'.calls[1].n = pages(m)
         /\ StateAt(osPages, m.data) # "free"
         /\ vmOp'.calls[1].ok =>
              /\ vmOp'.outcome = "ok"
              /\ \A q \in PageRange(m.data, pages(m)) :
                   q \in 1 .. AddrPages => osPages'[q] = FreePage
    ELSE /\ vmOp'.calls = <<>>
         /\ vmOp'.outcome = "ok"
         /\ osPages' = osPages

\* C28: move-assigning region B into region A releases A's previous
\* reservation to the OS exactly once, gives A the data pointer and page
\* count B had and leaves B with a null data pointer; a self-assignment
\* changes nothing; and in the assignment and the destruction of a region
\* after it every reservation is released exactly once: none twice, none
\* left behind.
C28_MoveAssignReleasesOnce ==
  [][/\ vmOp'.op = "move_assign" =>
          LET B == vmOp'.arg
              A == vmOp'.dst
          IN  IF A = B
                THEN /\ regions'[A].data = regions[A].data
                     /\ pages(regions'[A]) = pages(regions[A])
                     /\ vmOp'.calls = <<>>
                     /\ vmOp'.outcome = "ok"
                     /\ osPages' = osPages
                ELSE /\ regions'[A].data = regions[B].data
                     /\ pages(regions'[A]) = pages(regions[B])
                     /\ regions'[B].data = NullPtr
                     /\ ReleasesOnce(regions[A])
     /\ (vmOp.op = "move_assign" /\ vmOp'.op = "destroy") =>
          ReleasesOnce(regions[vmOp'.arg])]_vars

(***************************************************************************)
(* Claims about the reach of commit and decommit, stated over SpecVM.      *)
(***************************************************************************)
\* C29: commit and decommit issue an OS call only for a page inside the
\* live reservation of the region: the index is below pages(), data() is
\* not null, and the address of the call lies in
\* [data(), data() + pages() * page_size()).  An index out of range, or a
\* region that was released or moved from, never reaches the OS.
C29_CommitStaysInsideRegion ==
  (vmOp.op \in {"commit", "decommit"} /\ vmOp.calls # <<>>) =>
    /\ vmOp.before.data # NullPtr
    /\ vmOp.n < vmOp.before.pages
    /\ \A j \in 1 .. Len(vmOp.calls) :
         /\ vmOp.calls[j].addr >= vmOp.before.data
         /\ vmOp.calls[j].addr + vmOp.calls[j].n * PageSize
              <= vmOp.before.data + size_in_bytes(vmOp.before)

(***************************************************************************)
(* Claims about the alignment checks, stated over SpecAlignCheck.          *)
(***************************************************************************)
\* Align is a power of two.
IsPowerOfTwo(x) == \E k \in 0 .. PtrBits - 1 : x = Pow2(k)

\* C30: for all three shapes the compile-time check of active_cell<T, Align>
\* accepts exactly the alignments that are a power of two and at least
\* alignof(T), which is the set cell<T, Align> accepts: each of them is
\* accepted, every other value is rejected.
C30_ActiveCellAlignmentCheck ==
  query.fn = "active_cell" =>
    /\ query.accepted =
         (IsPowerOfTwo(query.Align) /\ query.Align >= query.alignofT)
    /\ query.accepted =
         cell_accepts(query.shape, query.alignofT, query.Align)

=============================================================================
